---- MODULE Spec2Model ----
(***************************************************************************)
(* A model of shaka.player.StreamVideoSource (the stream coordinator) and  *)
(* of shaka.dash.DurationSegmentIndexSource.                               *)
(*                                                                         *)
(* The coordinator is single threaded: every action below is one handler   *)
(* (a public call, an event callback, or the continuation of a promise)    *)
(* run to completion.                                                      *)
(***************************************************************************)
EXTENDS Integers, Sequences, FiniteSets, TLC

(***************************************************************************)
(* Bounds of the model.                                                    *)
(***************************************************************************)
\* Manifest updates (timer firings) explored in one behaviour.
MaxUpdates == 1

\* 'seeking' events of the video element explored in one behaviour.
MaxSeeks == 2

\* SegmentIndexes given to one computeStreamLimits() call.
MaxIndexes == 2

\* create() calls on one DurationSegmentIndexSource
MaxCreates == 3

(***************************************************************************)
(* The manifest content the model draws from.  A StreamInfo is known by    *)
(* its uniqueId, a StreamSetInfo by its uniqueId (two separate id spaces). *)
(***************************************************************************)
Types == {"audio", "video", "text"}

\* The StreamInfo objects a manifest may hold: uniqueId -> its fixed fields.
\* A StreamInfo without a width/height/bandwidth compares as 0 in JavaScript.
StreamInfos ==
  [ i \in 0..12 |->
      CASE i = 0 -> [contentType |-> "video", mime |-> "video/mp4",
                     bandwidth |-> 1, width |-> 1, height |-> 1]
        [] i = 1 -> [contentType |-> "video", mime |-> "video/mp4",
                     bandwidth |-> 3, width |-> 2, height |-> 2]
        [] i = 2 -> [contentType |-> "audio", mime |-> "audio/mp4",
                     bandwidth |-> 1, width |-> 0, height |-> 0]
        [] i = 3 -> [contentType |-> "audio", mime |-> "audio/mp4",
                     bandwidth |-> 2, width |-> 0, height |-> 0]
        [] i = 4 -> [contentType |-> "audio", mime |-> "audio/mp4",
                     bandwidth |-> 1, width |-> 0, height |-> 0]
        [] i = 5 -> [contentType |-> "text", mime |-> "text/vtt",
                     bandwidth |-> 0, width |-> 0, height |-> 0]
        [] i = 6 -> [contentType |-> "video", mime |-> "video/webm",
                     bandwidth |-> 2, width |-> 1, height |-> 1]
        [] i = 7 -> [contentType |-> "video", mime |-> "video/mp4",
                     bandwidth |-> 2, width |-> 2, height |-> 1]
        [] i = 8 -> [contentType |-> "video", mime |-> "video/mp4",
                     bandwidth |-> 2, width |-> 1, height |-> 2]
        [] i = 9 -> [contentType |-> "audio", mime |-> "audio/webm",
                     bandwidth |-> 1, width |-> 0, height |-> 0]
        [] i = 10 -> [contentType |-> "text", mime |-> "text/vtt",
                      bandwidth |-> 0, width |-> 0, height |-> 0]
        [] OTHER -> [contentType |-> "audio", mime |-> "audio/mp4",
                     bandwidth |-> 1, width |-> 0, height |-> 0] ]

InfoIds == DOMAIN StreamInfos

\* The StreamSetInfo objects a manifest may hold: uniqueId -> its fixed fields
\* and the StreamInfos the parsed manifest lists in it.
StreamSetInfos ==
  [ s \in 0..9 |->
      CASE s = 0 -> [contentType |-> "video", lang |-> "", main |-> FALSE,
                     mime |-> "video/mp4", streamInfos |-> <<0, 1>>]
        [] s = 1 -> [contentType |-> "audio", lang |-> "en", main |-> TRUE,
                     mime |-> "audio/mp4", streamInfos |-> <<2, 3>>]
        [] s = 2 -> [contentType |-> "audio", lang |-> "fr", main |-> FALSE,
                     mime |-> "audio/mp4", streamInfos |-> <<4>>]
        [] s = 3 -> [contentType |-> "text", lang |-> "fr", main |-> FALSE,
                     mime |-> "text/vtt", streamInfos |-> <<5>>]
        [] s = 4 -> [contentType |-> "video", lang |-> "", main |-> FALSE,
                     mime |-> "video/webm", streamInfos |-> <<6>>]
        [] s = 5 -> [contentType |-> "video", lang |-> "", main |-> FALSE,
                     mime |-> "video/mp4", streamInfos |-> <<7, 8>>]
        [] s = 6 -> [contentType |-> "audio", lang |-> "", main |-> FALSE,
                     mime |-> "audio/mp4", streamInfos |-> <<11>>]
        [] s = 7 -> [contentType |-> "audio", lang |-> "de", main |-> FALSE,
                     mime |-> "audio/webm", streamInfos |-> <<9>>]
        [] s = 8 -> [contentType |-> "audio", lang |-> "fr-FR", main |-> FALSE,
                     mime |-> "audio/mp4", streamInfos |-> <<12>>]
        [] OTHER -> [contentType |-> "text", lang |-> "en", main |-> TRUE,
                     mime |-> "text/vtt", streamInfos |-> <<10>>] ]

SetIds == DOMAIN StreamSetInfos

\* The parsed manifests (a sequence of periods, each a sequence of set ids)
\* and what the platform can play (the type-support predicate).
Mp4Only == {"video/mp4", "audio/mp4", "text/vtt"}

ParsedManifests ==
  { \* one period: video, two audio sets, text
    [periodInfos |-> << <<0, 1, 2, 3>> >>, typeSupport |-> Mp4Only],
    \* the same on a platform that plays nothing
    [periodInfos |-> << <<0, 1, 2, 3>> >>, typeSupport |-> {}],
    \* two periods, the first one WebM only, which the platform plays or not
    [periodInfos |-> << <<4>>, <<0, 1>> >>, typeSupport |-> Mp4Only \cup {"video/webm"}],
    [periodInfos |-> << <<4>>, <<0, 1>> >>, typeSupport |-> Mp4Only],
    \* no period at all
    [periodInfos |-> << >>, typeSupport |-> Mp4Only] }

\* The base language of a language tag (the part before the first '-').
LangBase(l) == IF l \in {"fr-CA", "fr-FR"} THEN "fr" ELSE l

\* Restrictions given to setRestrictions(); 0 stands for an absent limit.
NoRestrictions ==
  [maxWidth |-> 0, maxHeight |-> 0, maxBandwidth |-> 0, minBandwidth |-> 0]

RestrictionChoices ==
  { [NoRestrictions EXCEPT !.maxBandwidth = 1] }

\* every combination of limits, for the exploration of setRestrictions()
\* alone
RestrictionInputs ==
  [maxWidth : {0, 1}, maxHeight : {0, 1}, maxBandwidth : {0, 1, 2},
   minBandwidth : {0, 2}]

\* a manifest of one period with sets of several containers and languages
ConfigManifest ==
  [periodInfos |-> << <<0, 4, 1, 2, 8, 6, 7, 3, 9>> >>,
   typeSupport |-> Mp4Only \cup {"video/webm", "audio/webm"}]

\* the maps given to selectConfigurations() on that manifest: for each type
\* a list of offered sets in some order (an empty list: no such key)
ConfigMap(video, audio, text) ==
  [video |-> video, audio |-> audio, text |-> text]

ConfigInputs ==
  { ConfigMap(<<0>>, <<1>>, <<3>>),
    ConfigMap(<<0>>, <<2, 1>>, <<9>>),
    ConfigMap(<<0>>, <<2, 8>>, <<3, 9>>),
    ConfigMap(<<0>>, <<6, 8, 1>>, <<9, 3>>),
    ConfigMap(<<0>>, <<8, 2, 1>>, << >>),
    ConfigMap(<<0, 4>>, <<1, 8, 2>>, <<9, 3>>),
    ConfigMap(<<4, 0>>, <<1, 7, 2>>, <<3, 9>>),
    ConfigMap(<< >>, <<7, 1, 2>>, <<3>>),
    ConfigMap(<<0>>, << >>, <<9>>) }

\* a manifest of one period with a video and an audio set
PlayManifest ==
  [periodInfos |-> << <<0, 1>> >>, typeSupport |-> Mp4Only]

\* a manifest of two periods with two video sets of varied sizes
RestrictManifest ==
  [periodInfos |-> << <<0, 5, 1>>, <<2>> >>, typeSupport |-> Mp4Only]

\* The ids given to select*Track().
SelectIds == {1, 3, 5}

\* A SegmentReference, and the SegmentIndexes a source may produce.
\* endTime is <<>> (null) or <<e>>.
Ref(s, e) == [startTime |-> s, endTime |-> << e >>]

FullIndex == << Ref(0, 2), Ref(2, 4) >>

IndexShapes == { << >>, FullIndex, << Ref(5, 7) >> }

\* a SegmentReference whose end time is not known (endTime == null)
OpenRef(s) == [startTime |-> s, endTime |-> << >>]

\* the SegmentIndexes given to computeStreamLimits()
LimitIndexes ==
  { << >>, FullIndex, << Ref(5, 7) >>, << OpenRef(1) >>,
    << Ref(3, 4), OpenRef(4) >> }

\* the lists of SegmentIndexes given to computeStreamLimits()
LimitInputs ==
  UNION { [1..n -> LimitIndexes] : n \in 0..MaxIndexes }

\* the SegmentIndexes a source of |type| may produce
IndexShapesOf(type) == IF type = "video" THEN IndexShapes ELSE { FullIndex }

\* Bandwidth estimates the estimator may report.
Estimates == {4}

VARIABLES
  manifestInfo,          \* this.manifestInfo: <<>> (null) or <<record>>
  setStreamInfos,        \* StreamSetInfo.streamInfos of every set (shared objects)
  typeSupport,           \* the platform's supported MIME types
  enabled,               \* StreamInfo.enabled of every StreamInfo
  infoDestroyed,         \* number of destroy() calls received by each StreamInfo
  streamDestroyed,       \* number of destroy() calls received by each type's Stream
  segmentIndex,          \* segmentIndexSource's cached index: <<>> or <<refs>>
  streamSetsByType,      \* this.streamSetsByType: type -> sequence of set ids
  loaded,                \* this.loaded_
  lang,                  \* this.lang_
  subsNeeded,            \* this.subsNeeded_
  cachedRestrictions,    \* this.cachedRestrictions_: <<>> (null) or <<r>>
  streamsByType,         \* this.streamsByType_: type -> Stream state
  attached,              \* this.video is bound, listeners registered
  sourceOpenListener,    \* the 'sourceopen' listener is registered
  attachPromise,         \* this.attachPromise_: "pending", "resolved", "rejected"
  startPhase,            \* where createAndStartStreams_ / the start sequence is
  startCaller,           \* who called createAndStartStreams_: "attach", "update"
  selected,              \* selectedStreamInfosByType of the pending start
  minTimestampCorrection,\* this.minTimestampCorrection_: <<>> (infinite) or <<n>>
  maxTimestampCorrection,\* this.maxTimestampCorrection_: <<>> (infinite) or <<n>>
  updateTimer,           \* this.updateTimer_: <<>> (null) or <<interval>>
  updateInFlight,        \* a manifest update has been requested, not completed
  updates,               \* number of timer firings so far
  errorEvents,           \* an error event has been dispatched
  destroyed,             \* destroy() has been called
  video,                 \* the video element: playback rate, playhead, seek listener
  mediaSource,           \* the MediaSource: readyState and endOfStream() calls
  precreate,             \* onAllStreamsStarted_'s second promise chain
  shifted,               \* total of the correct() shifts given to each SegmentIndex
  resyncs,               \* Stream.resync() calls received by each type's Stream
  durationSource,        \* a shaka.dash.DurationSegmentIndexSource
  call                   \* the last handler run: its name, type, result and switches

vars ==
  << manifestInfo, setStreamInfos, typeSupport, enabled, infoDestroyed,
     streamDestroyed, segmentIndex, streamSetsByType, loaded, lang, subsNeeded,
     cachedRestrictions, streamsByType, attached, sourceOpenListener,
     attachPromise, startPhase, startCaller, selected,
     minTimestampCorrection, maxTimestampCorrection, updateTimer,
     updateInFlight, updates, errorEvents, destroyed, video, mediaSource,
     precreate, shifted, resyncs, durationSource, call >>

\* the state of the sink and of the post-start work
playVars == << video, mediaSource, precreate, shifted, resyncs >>

(***************************************************************************)
(* Helpers on sequences.                                                   *)
(***************************************************************************)
Range(s) == { s[i] : i \in DOMAIN s }

RECURSIVE Concat(_)
Concat(ss) == IF ss = << >> THEN << >> ELSE Head(ss) \o Concat(Tail(ss))

\* Array.prototype.splice(i, 1) followed by splice(0, 0, s[i])
MoveToFront(s, i) ==
  << s[i] >> \o SubSeq(s, 1, i - 1) \o SubSeq(s, i + 1, Len(s))

\* The record every handler leaves in |call|: its name, the content type it
\* is about, what it returned, and the Stream.switch calls it made.
Call(op, type, result, switches) ==
  [op |-> op, type |-> type, result |-> result, switches |-> switches]

\* One Stream.switch(streamInfo, immediate) call on the Stream of |type|.
Switch(type, info, immediate) ==
  [type |-> type, info |-> info, immediate |-> immediate]

(***************************************************************************)
(* Number arithmetic of the script engine: IEEE 754 binary64, round to     *)
(* nearest, ties to even.  A positive Number is [m, e], standing for       *)
(* m * 2^e; m is a natural number of up to 60 bits held as four digits of  *)
(* base 2^15, least significant first.                                     *)
(***************************************************************************)
DigitBase == 32768

\* the bits of a binary64 significand
SignificandBits == 53

BigOf(n) ==
  << n % DigitBase, (n \div DigitBase) % DigitBase,
     n \div (DigitBase * DigitBase), 0 >>

\* the value of a natural number below 2^30
SmallOf(a) == a[1] + DigitBase * a[2]

BigLess(a, b) ==
  \E i \in DOMAIN a :
    a[i] < b[i] /\ \A j \in DOMAIN a : j > i => a[j] = b[j]

BigDouble(a) ==
  LET \* the carry out of the digit |x| when it is doubled
      Carry(x) == IF 2 * x >= DigitBase THEN 1 ELSE 0
  IN  << (2 * a[1]) % DigitBase,
         (2 * a[2] + Carry(a[1])) % DigitBase,
         (2 * a[3] + Carry(a[2])) % DigitBase,
         (2 * a[4] + Carry(a[3])) % DigitBase >>

BigHalf(a) ==
  LET \* the half of DigitBase when the digit |x| is odd
      Fall(x) == IF x % 2 = 1 THEN DigitBase \div 2 ELSE 0
  IN  << (a[1] \div 2) + Fall(a[2]),
         (a[2] \div 2) + Fall(a[3]),
         (a[3] \div 2) + Fall(a[4]),
         a[4] \div 2 >>

\* a - b, for a >= b
BigSub(a, b) ==
  LET b1 == IF a[1] < b[1] THEN 1 ELSE 0
      b2 == IF a[2] - b1 < b[2] THEN 1 ELSE 0
      b3 == IF a[3] - b2 < b[3] THEN 1 ELSE 0
  IN  << (a[1] - b[1] + DigitBase) % DigitBase,
         (a[2] - b[2] - b1 + DigitBase) % DigitBase,
         (a[3] - b[3] - b2 + DigitBase) % DigitBase,
         (a[4] - b[4] - b3 + DigitBase) % DigitBase >>

BigInc(a) ==
  LET c1 == a[1] = DigitBase - 1
      c2 == c1 /\ a[2] = DigitBase - 1
      c3 == c2 /\ a[3] = DigitBase - 1
  IN  << (a[1] + 1) % DigitBase,
         IF c1 THEN (a[2] + 1) % DigitBase ELSE a[2],
         IF c2 THEN (a[3] + 1) % DigitBase ELSE a[3],
         IF c3 THEN (a[4] + 1) % DigitBase ELSE a[4] >>

\* the Number of a natural number below 2^30
NumberOf(n) == [m |-> BigOf(n), e |-> 0]

\* r / d brought into [1, 2): [r, d, k] with r * 2^-k / d the first quotient
RECURSIVE Normalised(_, _, _)
Normalised(r, d, k) ==
  IF BigLess(r, d) THEN Normalised(BigDouble(r), d, k + 1)
  ELSE IF ~BigLess(r, BigDouble(d)) THEN Normalised(r, BigDouble(d), k - 1)
  ELSE [r |-> r, d |-> d, k |-> k]

\* the significand |q| has more than SignificandBits bits
Overflowed(q) == q[Len(q)] >= 256

\* long division: |bits| more bits of r / d after the quotient |q|, which
\* starts at 1 and stays within SignificandBits bits
RECURSIVE QuotientBits(_, _, _, _)
QuotientBits(q, r, d, bits) ==
  IF bits = 0 \/ Overflowed(q) THEN [q |-> q, r |-> r]
  ELSE LET r2 == BigDouble(r)
       IN  IF BigLess(r2, d)
           THEN QuotientBits(BigDouble(q), r2, d, bits - 1)
           ELSE QuotientBits(BigInc(BigDouble(q)), BigSub(r2, d), d, bits - 1)

\* x / y for positive Numbers of significands below 2^54, correctly rounded
NumberDivide(x, y) ==
  LET n == Normalised(x.m, y.m, 0)
      \* the leading 1 and 52 more bits
      d == QuotientBits(BigOf(1), BigSub(n.r, n.d), n.d, SignificandBits - 1)
      twice == BigDouble(d.r)
      up == \/ BigLess(n.d, twice)
            \/ twice = n.d /\ d.q[1] % 2 = 1
      q == IF up THEN BigInc(d.q) ELSE d.q
      e == x.e - y.e - n.k - (SignificandBits - 1)
  IN  IF Overflowed(q) THEN [m |-> BigHalf(q), e |-> e + 1]
      ELSE [m |-> q, e |-> e]

\* a halved |shift| times: [a, lost] with |lost| telling that a 1 was
\* shifted out
RECURSIVE ShiftedRight(_, _, _)
ShiftedRight(a, lost, shift) ==
  IF shift = 0 THEN [a |-> a, lost |-> lost]
  ELSE IF a[1] % 2 = 1 THEN ShiftedRight(BigHalf(a), TRUE, shift - 1)
  ELSE ShiftedRight(BigHalf(a), lost, shift - 1)

\* Math.ceil(x), for a positive Number below 2^30
MathCeil(x) ==
  IF x.e >= 0 THEN SmallOf(x.m) * (2 ^ x.e)
  ELSE LET s == ShiftedRight(x.m, FALSE, 0 - x.e)
       IN  SmallOf(s.a) + (IF s.lost THEN 1 ELSE 0)

(***************************************************************************)
(* The state after construction.                                           *)
(***************************************************************************)
\* the video element and the MediaSource before attach()
NewVideo ==
  [playbackRate |-> 1, originalPlaybackRate |-> << >>, currentTime |-> 0,
   adjustments |-> 0,
   seekListener |-> "none", seeks |-> 0]

NewMediaSource ==
  [readyState |-> "closed", duration |-> << >>, endOfStream |-> 0]

\* the coordinator constructed on the manifest |parsed|
ConstructedWith(parsed, live, period, minBufferTime, periodDuration) ==
  /\ manifestInfo =
       << [periodInfos |-> parsed.periodInfos, live |-> live,
           updatePeriod |-> period, minBufferTime |-> minBufferTime,
           periodDuration |-> periodDuration] >>
  /\ video = NewVideo
  /\ mediaSource = NewMediaSource
  /\ precreate = "idle"
  /\ shifted = [i \in InfoIds |-> 0]
  /\ resyncs = [t \in Types |-> 0]
  /\ typeSupport = parsed.typeSupport
  /\ setStreamInfos = [s \in SetIds |-> StreamSetInfos[s].streamInfos]
  /\ enabled = [i \in InfoIds |-> TRUE]
  /\ infoDestroyed = [i \in InfoIds |-> 0]
  /\ streamDestroyed = [t \in Types |-> 0]
  /\ segmentIndex = [i \in InfoIds |-> << >>]
  /\ streamSetsByType = [t \in Types |-> << >>]
  /\ loaded = FALSE
  /\ lang = ""
  /\ subsNeeded = FALSE
  /\ cachedRestrictions = << >>
  /\ streamsByType = [t \in Types |-> << >>]
  /\ attached = FALSE
  /\ sourceOpenListener = FALSE
  /\ attachPromise = "pending"
  /\ startPhase = "idle"
  /\ startCaller = "none"
  /\ selected = [t \in Types |-> << >>]
  /\ minTimestampCorrection = << >>
  /\ maxTimestampCorrection = << >>
  /\ updateTimer = << >>
  /\ updateInFlight = FALSE
  /\ updates = 0
  /\ errorEvents = FALSE
  /\ destroyed = FALSE
  /\ call = Call("new", "", "ok", << >>)

Constructed(parsed, live, period) ==
  ConstructedWith(parsed, live, period, 1, IF live THEN 0 ELSE 8)

Init ==
  \E parsed \in ParsedManifests, live \in BOOLEAN, period \in {<< >>, <<5>>} :
    /\ (~live => period = << >>)
    /\ (Len(parsed.periodInfos) # 1 => ~live)
    /\ Constructed(parsed, live, period)
    /\ durationSource = << >>

(***************************************************************************)
(* StreamInfoProcessor.process(periodInfos): drops the StreamInfos the     *)
(* platform cannot play and the StreamSetInfos left empty.                 *)
(***************************************************************************)
Supported(i) == StreamInfos[i].mime \in typeSupport

ProcessedStreamInfos(s) == SelectSeq(setStreamInfos[s], Supported)

NonEmptyAfterProcess(s) == ProcessedStreamInfos(s) # << >>

ProcessedPeriods(periods) ==
  [ p \in DOMAIN periods |-> SelectSeq(periods[p], NonEmptyAfterProcess) ]

(***************************************************************************)
(* load(preferredLanguage)                                                 *)
(***************************************************************************)
\* load() without the |this.loaded_| check
load_withoutLoadedCheck(preferredLanguage) ==
  IF manifestInfo = << >> \/ manifestInfo[1].periodInfos = << >>
  THEN /\ call' = Call("load", "", "rejected", << >>)
       /\ UNCHANGED << manifestInfo, setStreamInfos, loaded, lang >>
  ELSE LET periods == ProcessedPeriods(manifestInfo[1].periodInfos) IN
       /\ lang' = preferredLanguage
       /\ manifestInfo' = << [manifestInfo[1] EXCEPT !.periodInfos = periods] >>
       /\ setStreamInfos' = [s \in SetIds |-> ProcessedStreamInfos(s)]
       /\ IF periods = << >> \/ periods[1] = << >>
          THEN /\ call' = Call("load", "", "rejected", << >>)
               /\ UNCHANGED loaded
          ELSE /\ call' = Call("load", "", "resolved", << >>)
               /\ loaded' = TRUE

load(preferredLanguage) ==
  IF loaded
  THEN /\ call' = Call("load", "", "rejected", << >>)
       /\ UNCHANGED << manifestInfo, setStreamInfos, loaded, lang >>
  ELSE IF manifestInfo = << >> \/ manifestInfo[1].periodInfos = << >>
  THEN /\ call' = Call("load", "", "rejected", << >>)
       /\ UNCHANGED << manifestInfo, setStreamInfos, loaded, lang >>
  ELSE LET periods == ProcessedPeriods(manifestInfo[1].periodInfos) IN
       /\ lang' = preferredLanguage
       /\ manifestInfo' = << [manifestInfo[1] EXCEPT !.periodInfos = periods] >>
       /\ setStreamInfos' = [s \in SetIds |-> ProcessedStreamInfos(s)]
       /\ IF periods = << >> \/ periods[1] = << >>
          THEN /\ call' = Call("load", "", "rejected", << >>)
               /\ UNCHANGED loaded
          ELSE /\ call' = Call("load", "", "resolved", << >>)
               /\ loaded' = TRUE

Load ==
  /\ \E l \in {"en", "fr-CA"} : load(l)
  /\ UNCHANGED << typeSupport, enabled, infoDestroyed, streamDestroyed, segmentIndex,
                  streamSetsByType, subsNeeded, cachedRestrictions,
                  streamsByType, attached, sourceOpenListener, attachPromise,
                  startPhase, startCaller, selected, minTimestampCorrection,
                  maxTimestampCorrection, updateTimer, updateInFlight,
                  updates, errorEvents, destroyed >>
  /\ UNCHANGED << playVars, durationSource >>

\* load() with any of the preferred languages
LoadAnyLanguage ==
  /\ \E l \in {"en", "fr-CA", "es"} : load(l)
  /\ UNCHANGED << typeSupport, enabled, infoDestroyed, streamDestroyed,
                  segmentIndex, streamSetsByType, subsNeeded,
                  cachedRestrictions, streamsByType, attached,
                  sourceOpenListener, attachPromise, startPhase, startCaller,
                  selected, minTimestampCorrection, maxTimestampCorrection,
                  updateTimer, updateInFlight, updates, errorEvents,
                  destroyed >>
  /\ UNCHANGED << playVars, durationSource >>

(***************************************************************************)
(* shaka.util.LanguageUtils.match(fuzz, preference, candidate): the fuzz   *)
(* ladder, 0 = exact, 1 = the candidate is the preference's base language, *)
(* 2 = both have the same base language.                                   *)
(***************************************************************************)
MatchTypeMin == 0
MatchTypeMax == 2

LanguageMatch(fuzz, preference, candidate) ==
  \/ candidate = preference
  \/ fuzz >= 1 /\ candidate = LangBase(preference)
  \/ fuzz >= 2 /\ LangBase(candidate) = LangBase(preference)

Min(S) == CHOOSE x \in S : \A y \in S : x <= y

(***************************************************************************)
(* sortByLanguage_(streamSets): move the best language match to the front. *)
(***************************************************************************)
\* sortByLanguage_() exchanging the match with the front set
sortByLanguage_bySwapping(streamSets) ==
  LET Matches(fuzz) ==
        { i \in DOMAIN streamSets :
            LanguageMatch(fuzz, lang, StreamSetInfos[streamSets[i]].lang) }
      fuzzes == { f \in MatchTypeMin..MatchTypeMax : Matches(f) # {} }
      mains == { i \in DOMAIN streamSets : StreamSetInfos[streamSets[i]].main }
      Swap(i) == [streamSets EXCEPT ![1] = streamSets[i], ![i] = streamSets[1]]
  IN  IF fuzzes # {} THEN Swap(Min(Matches(Min(fuzzes))))
      ELSE IF mains # {} THEN Swap(Min(mains))
      ELSE streamSets

sortByLanguage_(streamSets) ==
  LET Matches(fuzz) ==
        { i \in DOMAIN streamSets :
            LanguageMatch(fuzz, lang, StreamSetInfos[streamSets[i]].lang) }
      fuzzes == { f \in MatchTypeMin..MatchTypeMax : Matches(f) # {} }
      mains == { i \in DOMAIN streamSets : StreamSetInfos[streamSets[i]].main }
  IN  IF fuzzes # {} THEN MoveToFront(streamSets, Min(Matches(Min(fuzzes))))
      ELSE IF mains # {} THEN MoveToFront(streamSets, Min(mains))
      ELSE streamSets

(***************************************************************************)
(* selectConfigurations(configs): configs maps a type to the list of the   *)
(* chosen StreamSetInfo ids (an empty list: the type is not in the map).   *)
(***************************************************************************)
\* the sets of |type| in the first period, which getConfigurations() offers
OfferedSets(type) ==
  IF manifestInfo = << >> \/ manifestInfo[1].periodInfos = << >> THEN {}
  ELSE { s \in Range(manifestInfo[1].periodInfos[1]) :
           StreamSetInfos[s].contentType = type }

\* the configurations of |type| in the order getConfigurations() lists them
OfferedConfigs(type) ==
  IF OfferedSets(type) = {} THEN << >>
  ELSE SelectSeq(manifestInfo[1].periodInfos[1],
                 LAMBDA s : StreamSetInfos[s].contentType = type)

\* the maps given to selectConfigurations(): every offered set of every type
ConfigChoices ==
  { [t \in Types |-> OfferedConfigs(t)] }

SameBasicMimeType(cfgList) ==
  LET SameAsFirst(s) == StreamSetInfos[s].mime = StreamSetInfos[cfgList[1]].mime
  IN  SelectSeq(cfgList, SameAsFirst)

\* the conversion of selectConfigurations() keeping every audio
\* configuration
ChosenSets_withoutMimeFilter(type, cfgList) ==
  IF cfgList = << >> THEN << >>
  ELSE IF type = "video" THEN << cfgList[1] >>
  ELSE cfgList

ChosenSets(type, cfgList) ==
  IF cfgList = << >> THEN << >>
  ELSE IF type = "video" THEN << cfgList[1] >>
  ELSE IF type = "audio" THEN SameBasicMimeType(cfgList)
  ELSE cfgList

SortedSets(type, cfgList) ==
  IF type \in {"audio", "text"} /\ cfgList # << >>
  THEN sortByLanguage_(ChosenSets(type, cfgList))
  ELSE ChosenSets(type, cfgList)

\* |audioSets[0].lang || this.lang_|
LangOrPreferred(sets) ==
  IF StreamSetInfos[sets[1]].lang # "" THEN StreamSetInfos[sets[1]].lang ELSE lang

\* subsNeeded_ decided on the audio sets alone
SubsNeededFor_ignoringText(audioSets, textSets) ==
  IF audioSets # << >> /\
     LanguageMatch(MatchTypeMax, lang, LangOrPreferred(audioSets))
  THEN FALSE ELSE TRUE

SubsNeededFor(audioSets, textSets) ==
  LET afterAudio ==
        IF audioSets # << >> /\
           LanguageMatch(MatchTypeMax, lang, LangOrPreferred(audioSets))
        THEN FALSE ELSE TRUE
  IN  IF textSets # << >> /\
         ~LanguageMatch(MatchTypeMax, lang, LangOrPreferred(textSets))
      THEN FALSE ELSE afterAudio

selectConfigurations(configs) ==
  IF ~loaded
  THEN /\ call' = Call("selectConfigurations", "", "ignored", << >>)
       /\ UNCHANGED << streamSetsByType, subsNeeded >>
  ELSE IF destroyed
  THEN /\ call' = Call("selectConfigurations", "", "TypeError", << >>)
       /\ UNCHANGED << streamSetsByType, subsNeeded >>
  ELSE LET sets == [t \in Types |-> SortedSets(t, configs[t])] IN
       /\ streamSetsByType' = sets
       /\ subsNeeded' = SubsNeededFor(sets["audio"], sets["text"])
       /\ call' = Call("selectConfigurations", "", "ok", << >>)
                  @@ [configs |-> configs]

SelectConfigurations ==
  /\ \E configs \in ConfigChoices : selectConfigurations(configs)
  /\ UNCHANGED << manifestInfo, setStreamInfos, typeSupport, enabled,
                  infoDestroyed, streamDestroyed, segmentIndex, loaded, lang,
                  cachedRestrictions, streamsByType, attached,
                  sourceOpenListener, attachPromise, startPhase, startCaller,
                  selected, minTimestampCorrection, maxTimestampCorrection,
                  updateTimer, updateInFlight, updates, errorEvents, destroyed >>
  /\ UNCHANGED << playVars, durationSource >>

\* selectConfigurations() with any of the maps of ConfigInputs
SelectAnyConfigurations ==
  /\ \E configs \in ConfigInputs : selectConfigurations(configs)
  /\ UNCHANGED << manifestInfo, setStreamInfos, typeSupport, enabled,
                  infoDestroyed, streamDestroyed, segmentIndex, loaded, lang,
                  cachedRestrictions, streamsByType, attached,
                  sourceOpenListener, attachPromise, startPhase, startCaller,
                  selected, minTimestampCorrection, maxTimestampCorrection,
                  updateTimer, updateInFlight, updates, errorEvents, destroyed >>
  /\ UNCHANGED << playVars, durationSource >>

(***************************************************************************)
(* setRestrictions(restrictions)                                           *)
(***************************************************************************)
\* every StreamInfo of every StreamSetInfo of every period of the manifest
ManifestSets ==
  IF manifestInfo = << >> THEN {}
  ELSE UNION { Range(manifestInfo[1].periodInfos[p]) :
                 p \in DOMAIN manifestInfo[1].periodInfos }

ManifestStreamInfosIn(setInfos) == UNION { Range(setInfos[s]) : s \in ManifestSets }

ManifestStreamInfos == ManifestStreamInfosIn(setStreamInfos)

\* the limits of setRestrictions() with an inclusive bandwidth ceiling
Restricted_inclusiveBandwidth(i, r) ==
  \/ r.maxWidth # 0 /\ StreamInfos[i].width > r.maxWidth
  \/ r.maxHeight # 0 /\ StreamInfos[i].height > r.maxHeight
  \/ r.maxBandwidth # 0 /\ StreamInfos[i].bandwidth >= r.maxBandwidth
  \/ r.minBandwidth # 0 /\ StreamInfos[i].bandwidth < r.minBandwidth

Restricted(i, r) ==
  \/ r.maxWidth # 0 /\ StreamInfos[i].width > r.maxWidth
  \/ r.maxHeight # 0 /\ StreamInfos[i].height > r.maxHeight
  \/ r.maxBandwidth # 0 /\ StreamInfos[i].bandwidth > r.maxBandwidth
  \/ r.minBandwidth # 0 /\ StreamInfos[i].bandwidth < r.minBandwidth

\* the enabled flags after the loop of setRestrictions(), which sets the
\* flag of every StreamInfo of the manifest to true and then clears it
EnabledFrom(prior, setInfos, r) ==
  [ i \in InfoIds |->
      IF i \in ManifestStreamInfosIn(setInfos) THEN ~Restricted(i, r)
      ELSE prior[i] ]

\* setRestrictions() that only clears flags (no |streamInfo.enabled = true|)
EnabledAfterIn_withoutReset(setInfos, r) ==
  [ i \in InfoIds |->
      IF i \in ManifestStreamInfosIn(setInfos)
      THEN enabled[i] /\ ~Restricted(i, r)
      ELSE enabled[i] ]

EnabledAfterIn(setInfos, r) == EnabledFrom(enabled, setInfos, r)

setRestrictions(restrictions) ==
  IF ~loaded
  THEN /\ call' = Call("setRestrictions", "", "ignored", << >>)
       /\ UNCHANGED << cachedRestrictions, enabled >>
  ELSE IF destroyed
  THEN /\ call' = Call("setRestrictions", "", "TypeError", << >>)
       /\ cachedRestrictions' = << restrictions >>
       /\ UNCHANGED enabled
  ELSE /\ cachedRestrictions' = << restrictions >>
       /\ enabled' = EnabledAfterIn(setStreamInfos, restrictions)
       /\ call' = Call("setRestrictions", "", "ok", << >>)

SetRestrictions ==
  /\ \E r \in RestrictionChoices : setRestrictions(r)
  /\ UNCHANGED << manifestInfo, setStreamInfos, typeSupport, infoDestroyed, streamDestroyed,
                  segmentIndex, streamSetsByType, loaded, lang, subsNeeded,
                  streamsByType, attached, sourceOpenListener, attachPromise,
                  startPhase, startCaller, selected, minTimestampCorrection,
                  maxTimestampCorrection, updateTimer, updateInFlight,
                  updates, errorEvents, destroyed >>
  /\ UNCHANGED << playVars, durationSource >>

\* setRestrictions() with any combination of limits
SetAnyRestrictions ==
  /\ \E r \in RestrictionInputs : setRestrictions(r)
  /\ UNCHANGED << manifestInfo, setStreamInfos, typeSupport, infoDestroyed,
                  streamDestroyed, segmentIndex, streamSetsByType, loaded,
                  lang, subsNeeded, streamsByType, attached,
                  sourceOpenListener, attachPromise, startPhase, startCaller,
                  selected, minTimestampCorrection, maxTimestampCorrection,
                  updateTimer, updateInFlight, updates, errorEvents,
                  destroyed >>
  /\ UNCHANGED << playVars, durationSource >>

(***************************************************************************)
(* A Stream (shaka.media.Stream / TextStream), as the coordinator sees it: *)
(* the StreamInfo it reports, whether it has started and ended, and (text) *)
(* whether it is enabled.                                                  *)
(***************************************************************************)
NewStream ==
  [streamInfo |-> << >>, started |-> FALSE, ended |-> FALSE, enabled |-> FALSE,
   \* the correction its started event reported: <<>> until it has started
   timestampCorrection |-> << >>]

\* Stream.switch(streamInfo, immediate): the Stream selects |info|.
StreamSwitch(stream, info, immediate) ==
  [stream EXCEPT !.streamInfo = << info >>]

\* |stream ? stream.getStreamInfo() : null|, then |... ? uniqueId : 0|
ActiveId(type) ==
  IF streamsByType[type] # << >> /\ streamsByType[type][1].streamInfo # << >>
  THEN streamsByType[type][1].streamInfo[1]
  ELSE 0

\* the StreamInfos of the given sets, in listing order
InfosOfSetsIn(setInfos, sets) == Concat([k \in DOMAIN sets |-> setInfos[sets[k]]])

InfosOfSets(sets) == InfosOfSetsIn(setStreamInfos, sets)

IsEnabled(i) == enabled[i]

Track(i, type) == [id |-> i, active |-> (i = ActiveId(type))]

(***************************************************************************)
(* getVideoTracks(), getAudioTracks(), getTextTracks()                     *)
(***************************************************************************)
getVideoTracks ==
  LET infos == SelectSeq(InfosOfSets(streamSetsByType["video"]), IsEnabled)
  IN  [k \in DOMAIN infos |-> Track(infos[k], "video")]

getAudioTracks ==
  LET infos == InfosOfSets(streamSetsByType["audio"])
  IN  [k \in DOMAIN infos |-> Track(infos[k], "audio")]

getTextTracks ==
  LET infos == InfosOfSets(streamSetsByType["text"])
  IN  [k \in DOMAIN infos |-> Track(infos[k], "text")]

getTracks(type) ==
  IF type = "video" THEN getVideoTracks
  ELSE IF type = "audio" THEN getAudioTracks
  ELSE getTextTracks

(***************************************************************************)
(* selectTrack_(type, id, immediate) and its three public entry points.    *)
(***************************************************************************)
\* selectTrack_() without the final |return false|: an id that matches no
\* StreamInfo is reported as selected
selectTrack_withoutFinalReturn(type, id, immediate) ==
  IF destroyed
  THEN /\ call' = Call("selectTrack", type, "TypeError", << >>)
       /\ UNCHANGED streamsByType
  ELSE IF streamSetsByType[type] = << >>
  THEN /\ call' = Call("selectTrack", type, "false", << >>)
       /\ UNCHANGED streamsByType
  ELSE IF streamsByType[type] = << >>
  THEN /\ call' = Call("selectTrack", type, "false", << >>)
       /\ UNCHANGED streamsByType
  ELSE IF id \in Range(InfosOfSets(streamSetsByType[type]))
  THEN /\ streamsByType' =
            [streamsByType EXCEPT
               ![type] = << StreamSwitch(streamsByType[type][1], id, immediate) >>]
       /\ call' = Call("selectTrack", type, "true",
                       << Switch(type, id, immediate) >>)
  ELSE /\ call' = Call("selectTrack", type, "true", << >>)
       /\ UNCHANGED streamsByType

selectTrack_(type, id, immediate) ==
  IF destroyed
  THEN /\ call' = Call("selectTrack", type, "TypeError", << >>)
       /\ UNCHANGED streamsByType
  ELSE IF streamSetsByType[type] = << >>
  THEN /\ call' = Call("selectTrack", type, "false", << >>)
       /\ UNCHANGED streamsByType
  ELSE IF streamsByType[type] = << >>
  THEN /\ call' = Call("selectTrack", type, "false", << >>)
       /\ UNCHANGED streamsByType
  ELSE IF id \in Range(InfosOfSets(streamSetsByType[type]))
  THEN /\ streamsByType' =
            [streamsByType EXCEPT
               ![type] = << StreamSwitch(streamsByType[type][1], id, immediate) >>]
       /\ call' = Call("selectTrack", type, "true",
                       << Switch(type, id, immediate) >>)
  ELSE /\ call' = Call("selectTrack", type, "false", << >>)
       /\ UNCHANGED streamsByType

selectVideoTrack(id, immediate) == selectTrack_("video", id, immediate)

selectAudioTrack(id, immediate) == selectTrack_("audio", id, immediate)

selectTextTrack(id, immediate) == selectTrack_("text", id, immediate)

UnchangedBySelect ==
  UNCHANGED << manifestInfo, setStreamInfos, typeSupport, enabled,
               infoDestroyed, streamDestroyed, segmentIndex, streamSetsByType, loaded, lang,
               subsNeeded, cachedRestrictions, attached, sourceOpenListener,
               attachPromise, startPhase, startCaller, selected,
               minTimestampCorrection, maxTimestampCorrection, updateTimer,
               updateInFlight, updates, errorEvents, destroyed >>

SelectVideoTrack ==
  /\ \E id \in SelectIds, immediate \in BOOLEAN : selectVideoTrack(id, immediate)
  /\ UnchangedBySelect
  /\ UNCHANGED << playVars, durationSource >>

SelectAudioTrack ==
  /\ \E id \in SelectIds, immediate \in BOOLEAN : selectAudioTrack(id, immediate)
  /\ UnchangedBySelect
  /\ UNCHANGED << playVars, durationSource >>

SelectTextTrack ==
  /\ \E id \in SelectIds, immediate \in BOOLEAN : selectTextTrack(id, immediate)
  /\ UnchangedBySelect
  /\ UNCHANGED << playVars, durationSource >>

(***************************************************************************)
(* attach(player, video).  The player attaches a source once.              *)
(***************************************************************************)
\* attach() without the |this.loaded_| check
attach_withoutLoadedCheck ==
  IF destroyed
  THEN /\ call' = Call("attach", "", "TypeError", << >>)
       /\ attached' = TRUE
       /\ UNCHANGED sourceOpenListener
  ELSE /\ attached' = TRUE
       /\ sourceOpenListener' = TRUE
       /\ call' = Call("attach", "", "pending", << >>)

attach ==
  IF ~loaded
  THEN /\ call' = Call("attach", "", "rejected", << >>)
       /\ UNCHANGED << attached, sourceOpenListener >>
  ELSE IF destroyed
  THEN /\ call' = Call("attach", "", "TypeError", << >>)
       /\ attached' = TRUE
       /\ UNCHANGED sourceOpenListener
  ELSE /\ attached' = TRUE
       /\ sourceOpenListener' = TRUE
       /\ call' = Call("attach", "", "pending", << >>)

Attach ==
  /\ ~attached
  /\ attach
  /\ UNCHANGED << manifestInfo, setStreamInfos, typeSupport, enabled,
                  infoDestroyed, streamDestroyed, segmentIndex, streamSetsByType, loaded, lang,
                  subsNeeded, cachedRestrictions, streamsByType, attachPromise,
                  startPhase, startCaller, selected, minTimestampCorrection,
                  maxTimestampCorrection, updateTimer, updateInFlight,
                  updates, errorEvents, destroyed >>
  /\ UNCHANGED << playVars, durationSource >>

(***************************************************************************)
(* IAbrManager.getInitialVideoTrackId(): the highest bandwidth video track *)
(* that fits in 0.8 of the estimate, else the lowest; <<>> (null) when the *)
(* source lists no video track.  |setInfos| and |flags| are the            *)
(* StreamSetInfo.streamInfos and the StreamInfo.enabled of the moment of   *)
(* the call.                                                               *)
(***************************************************************************)
getInitialVideoTrackId(estimate, setInfos, flags) ==
  LET \* the ids of videoSource.getVideoTracks()
      ids == { i \in Range(InfosOfSetsIn(setInfos, streamSetsByType["video"])) :
                 flags[i] }
      fits == { i \in ids : StreamInfos[i].bandwidth * 10 <= estimate * 8 }
      Highest(S) == CHOOSE i \in S :
                      \A j \in S : StreamInfos[j].bandwidth <= StreamInfos[i].bandwidth
      Lowest(S) == CHOOSE i \in S :
                     \A j \in S : StreamInfos[j].bandwidth >= StreamInfos[i].bandwidth
  IN  IF ids = {} THEN << >>
      ELSE IF fits # {} THEN << Highest(fits) >>
      ELSE << Lowest(ids) >>

(***************************************************************************)
(* selectStreamInfos_(streamSetInfos): the initial StreamInfo of one set.  *)
(***************************************************************************)
selectStreamInfo(streamSet, trackId, setInfos) ==
  LET infos == setInfos[streamSet]
      type == StreamSetInfos[streamSet].contentType
  IN  IF type = "video"
      THEN IF trackId # << >> /\ trackId[1] \in Range(infos)
           THEN trackId[1]
           ELSE infos[Len(infos)]
      ELSE IF type = "audio"
      THEN infos[(Len(infos) \div 2) + 1]
      ELSE infos[1]

\* for each desired type, the first StreamSetInfo's initial StreamInfo
selectStreamInfos_(trackId, setInfos) ==
  [ t \in Types |->
      IF streamSetsByType[t] = << >> THEN << >>
      ELSE << selectStreamInfo(streamSetsByType[t][1], trackId, setInfos) >> ]

(***************************************************************************)
(* computeStreamLimits(segmentIndexes): <<>> (null) or <<[start, end]>>.   *)
(* The running end time is <<>> while it is POSITIVE_INFINITY.             *)
(***************************************************************************)
Max2(a, b) == IF a >= b THEN a ELSE b

Min2(a, b) == IF a <= b THEN a ELSE b

\* Math.min(endTime, t) where endTime may be infinite
MinEnd(endTime, t) == IF endTime = << >> THEN << t >> ELSE << Min2(endTime[1], t) >>

LimitsStep(acc, index, live, minBufferTime) ==
  IF index = << >>
  THEN [start |-> 0, end |-> << 0 >>]
  ELSE LET first == index[1]
           last == index[Len(index)]
           start == Max2(acc.start, first.startTime)
       IN  IF live
           THEN [start |-> start,
                 end |-> MinEnd(acc.end, Max2(0, last.startTime - minBufferTime))]
           ELSE IF last.endTime # << >>
           THEN [start |-> start, end |-> MinEnd(acc.end, last.endTime[1])]
           ELSE [start |-> start, end |-> acc.end]

RECURSIVE LimitsFold(_, _, _, _)
LimitsFold(acc, indexes, live, minBufferTime) ==
  IF indexes = << >> THEN acc
  ELSE LimitsFold(LimitsStep(acc, Head(indexes), live, minBufferTime),
                  Tail(indexes), live, minBufferTime)

\* computeStreamLimits() returning limits for disjoint timelines too
computeStreamLimits_withoutDisjointCheck(segmentIndexes, live, minBufferTime, periodDuration) ==
  LET acc == LimitsFold([start |-> 0, end |-> << >>], segmentIndexes,
                        live, minBufferTime)
      end == IF acc.end # << >> THEN acc.end
             ELSE IF periodDuration # 0 THEN << periodDuration >>
             ELSE << >>
  IN  IF end = << >> THEN << >>
      ELSE << [start |-> acc.start, end |-> end[1]] >>

computeStreamLimits(segmentIndexes, live, minBufferTime, periodDuration) ==
  LET acc == LimitsFold([start |-> 0, end |-> << >>], segmentIndexes,
                        live, minBufferTime)
      end == IF acc.end # << >> THEN acc.end
             ELSE IF periodDuration # 0 THEN << periodDuration >>
             ELSE << >>
  IN  IF end = << >> THEN << >>
      ELSE IF acc.start > end[1] THEN << >>
      ELSE << [start |-> acc.start, end |-> end[1]] >>

\* a call of computeStreamLimits(segmentIndexes) on the coordinator
ComputeStreamLimits ==
  /\ manifestInfo # << >>
  /\ \E segmentIndexes \in LimitInputs :
       call' = Call("computeStreamLimits", "", "ok", << >>) @@
               [segmentIndexes |-> segmentIndexes,
                limits |-> computeStreamLimits(
                             segmentIndexes, manifestInfo[1].live,
                             manifestInfo[1].minBufferTime,
                             manifestInfo[1].periodDuration)]
  /\ UNCHANGED << manifestInfo, setStreamInfos, typeSupport, enabled,
                  infoDestroyed, streamDestroyed, segmentIndex,
                  streamSetsByType, loaded, lang, subsNeeded,
                  cachedRestrictions, streamsByType, attached,
                  sourceOpenListener, attachPromise, startPhase, startCaller,
                  selected, minTimestampCorrection, maxTimestampCorrection,
                  updateTimer, updateInFlight, updates, errorEvents,
                  destroyed, playVars, durationSource >>

(***************************************************************************)
(* shaka.dash.DurationSegmentIndexSource                                   *)
(***************************************************************************)
\* the source after its constructor: the MPD's type, the period's duration,
\* the SegmentTemplate's segmentDuration and timescale, no SegmentIndex
NewDurationSource(dynamic, duration, segmentDuration, timescale) ==
  [mpd_ |-> << [dynamic |-> dynamic] >>,
   period_ |-> << [duration |-> duration] >>,
   representation_ |-> << [segmentDuration |-> segmentDuration,
                           timescale |-> timescale] >>,
   segmentIndex_ |-> << >>,
   indexes |-> 0,            \* SegmentIndex objects constructed so far
   indexesDestroyed |-> {},  \* those whose destroy() has been called
   creates |-> 0]            \* create() calls so far

\* what a create() gave: the source after it, how the promise settled (or
\* the exception thrown), the SegmentIndex resolved with, and the
\* references requested from generateSegmentReferences
Created(this, result, index, requested) ==
  [this |-> this, result |-> result, index |-> index, requested |-> requested]

\* Math.ceil(duration / (segmentDuration / timescale)) in binary64
NumSegments(duration, segmentDuration, timescale) ==
  MathCeil(NumberDivide(NumberOf(duration),
                        NumberDivide(NumberOf(segmentDuration),
                                     NumberOf(timescale))))

\* create() without the test of this.segmentIndex_
create_withoutCache(this, built) ==
  LET counted == [this EXCEPT !.creates = @ + 1]
      made == [counted EXCEPT !.segmentIndex_ = << this.indexes + 1 >>,
                              !.indexes = @ + 1]
  IN  IF this.mpd_ = << >> THEN Created(counted, "TypeError", << >>, << >>)
      ELSE IF this.mpd_[1].dynamic
      THEN IF built THEN Created(made, "resolved", made.segmentIndex_, << >>)
           ELSE Created(counted, "rejected", << >>, << >>)
      ELSE LET t == this.representation_[1]
               numSegments == NumSegments(this.period_[1].duration,
                                          t.segmentDuration, t.timescale)
               requested == << [first |-> 1, count |-> numSegments] >>
           IN  IF built
               THEN Created(made, "resolved", made.segmentIndex_, requested)
               ELSE Created(counted, "rejected", << >>, requested)

\* create(); |built| says whether the callee (the DynamicLiveSegmentIndex
\* constructor, generateSegmentReferences) gave a result
create(this, built) ==
  LET counted == [this EXCEPT !.creates = @ + 1]
      made == [counted EXCEPT !.segmentIndex_ = << this.indexes + 1 >>,
                              !.indexes = @ + 1]
  IN  IF this.segmentIndex_ # << >>
      THEN Created(counted, "resolved", this.segmentIndex_, << >>)
      ELSE IF this.mpd_ = << >>
      THEN Created(counted, "TypeError", << >>, << >>)
      ELSE IF this.mpd_[1].dynamic
      THEN IF built THEN Created(made, "resolved", made.segmentIndex_, << >>)
           ELSE Created(counted, "rejected", << >>, << >>)
      ELSE LET t == this.representation_[1]
               numSegments == NumSegments(this.period_[1].duration,
                                          t.segmentDuration, t.timescale)
               requested == << [first |-> 1, count |-> numSegments] >>
           IN  IF built
               THEN Created(made, "resolved", made.segmentIndex_, requested)
               ELSE Created(counted, "rejected", << >>, requested)

\* DurationSegmentIndexSource.destroy()
destroySource(this) ==
  [this EXCEPT !.mpd_ = << >>, !.period_ = << >>, !.representation_ = << >>,
               !.segmentIndex_ = << >>,
               !.indexesDestroyed =
                  @ \cup { this.segmentIndex_[k] : k \in DOMAIN this.segmentIndex_ }]

\* the variables of the StreamVideoSource
sourceVars ==
  << manifestInfo, setStreamInfos, typeSupport, enabled, infoDestroyed,
     streamDestroyed, segmentIndex, streamSetsByType, loaded, lang, subsNeeded,
     cachedRestrictions, streamsByType, attached, sourceOpenListener,
     attachPromise, startPhase, startCaller, selected,
     minTimestampCorrection, maxTimestampCorrection, updateTimer,
     updateInFlight, updates, errorEvents, destroyed >>

\* a caller runs create()
CreateIndex ==
  /\ durationSource # << >>
  /\ durationSource[1].creates < MaxCreates
  /\ \E built \in BOOLEAN :
       LET c == create(durationSource[1], built)
       IN  /\ durationSource' = << c.this >>
           /\ call' = Call("create", "", c.result, << >>) @@
                      [index |-> c.index, requested |-> c.requested]
  /\ UNCHANGED << sourceVars, playVars >>

\* a caller runs DurationSegmentIndexSource.destroy()
DestroySource ==
  /\ durationSource # << >>
  /\ durationSource' = << destroySource(durationSource[1]) >>
  /\ call' = Call("destroySource", "", "ok", << >>)
  /\ UNCHANGED << sourceVars, playVars >>

(***************************************************************************)
(* setUpdateTimer_(offset)                                                 *)
(***************************************************************************)
MIN_UPDATE_INTERVAL_ == 3

\* setUpdateTimer_() without the minimum interval
setUpdateTimer_withoutMinimum(offset) ==
  IF manifestInfo[1].updatePeriod = << >>
  THEN updateTimer' = updateTimer
  ELSE updateTimer' = << manifestInfo[1].updatePeriod[1] - offset >>

setUpdateTimer_(offset) ==
  IF manifestInfo[1].updatePeriod = << >>
  THEN updateTimer' = updateTimer
  ELSE updateTimer' =
         << Max2(manifestInfo[1].updatePeriod[1] - offset, MIN_UPDATE_INTERVAL_) >>

(***************************************************************************)
(* createAndStartStreams_(), first part: select the initial StreamInfos    *)
(* and ask each one's SegmentIndexSource for its SegmentIndex.             *)
(***************************************************************************)
createAndStartStreams_(caller, estimate, setInfos, flags) ==
  /\ selected' =
       selectStreamInfos_(getInitialVideoTrackId(estimate, setInfos, flags),
                          setInfos)
  /\ startPhase' = "creating"
  /\ startCaller' = caller

(***************************************************************************)
(* onMediaSourceOpen_(event): the sink has opened.                         *)
(***************************************************************************)
\* onMediaSourceOpen_() resolving attachPromise_ without waiting for
\* createAndStartStreams_()
onMediaSourceOpen_resolvingAtOnce ==
  /\ sourceOpenListener
  /\ sourceOpenListener' = FALSE
  /\ \E estimate \in Estimates :
       createAndStartStreams_("attach", estimate, setStreamInfos, enabled)
  /\ attachPromise' = "resolved"
  /\ call' = Call("onMediaSourceOpen", "", "ok", << >>)
  /\ UNCHANGED << manifestInfo, setStreamInfos, typeSupport, enabled,
                  infoDestroyed, streamDestroyed, segmentIndex, streamSetsByType, loaded, lang,
                  subsNeeded, cachedRestrictions, streamsByType, attached,
                  minTimestampCorrection, maxTimestampCorrection, updateTimer,
                  updateInFlight, updates, errorEvents, destroyed >>
  /\ mediaSource' = [mediaSource EXCEPT !.readyState = "open"]
  /\ UNCHANGED << video, precreate, shifted, resyncs, durationSource >>

onMediaSourceOpen_ ==
  /\ sourceOpenListener
  /\ sourceOpenListener' = FALSE
  /\ \E estimate \in Estimates :
       createAndStartStreams_("attach", estimate, setStreamInfos, enabled)
  /\ call' = Call("onMediaSourceOpen", "", "ok", << >>)
  /\ UNCHANGED << manifestInfo, setStreamInfos, typeSupport, enabled,
                  infoDestroyed, streamDestroyed, segmentIndex, streamSetsByType, loaded, lang,
                  subsNeeded, cachedRestrictions, streamsByType, attached,
                  attachPromise, minTimestampCorrection,
                  maxTimestampCorrection, updateTimer, updateInFlight,
                  updates, errorEvents, destroyed >>
  /\ mediaSource' = [mediaSource EXCEPT !.readyState = "open"]
  /\ UNCHANGED << video, precreate, shifted, resyncs, durationSource >>

(***************************************************************************)
(* createAndStartStreams_(), second part: the SegmentIndexes have been     *)
(* created (or one creation failed); create and start the Streams, or      *)
(* handle the failure.  onMediaSourceOpen_ then settles attachPromise_.    *)
(***************************************************************************)
desiredTypes == << "audio", "video", "text" >>

\* the types of |byType| that hold a value, in insertion order
TypesIn(byType) == SelectSeq(desiredTypes, LAMBDA t : byType[t] # << >>)

\* segmentIndexSource.create() of |i|: the cached index, else a new one
CreatedIndex(i, shapes) ==
  IF segmentIndex[i] # << >> THEN segmentIndex[i]
  ELSE << shapes[StreamInfos[i].contentType] >>

\* why the start fails, or "ok"
StartOutcome(indexes, live, minBufferTime, periodDuration, canCreate) ==
  IF \E k \in DOMAIN indexes : indexes[k] = << >> THEN "error"
  ELSE IF computeStreamLimits(indexes, live, minBufferTime, periodDuration) = << >>
  THEN "error"
  ELSE IF ~canCreate THEN "error"
  ELSE "ok"

\* createStreams_(streamInfosByType) keeping the Streams it created when a
\* later one cannot be created
createStreams_keepingCreated(streamInfosByType, failing) ==
  LET types == TypesIn(streamInfosByType)
      Before(k) == { types[j] : j \in 1..(k - 1) }
  IN  IF failing = ""
      THEN [ok |-> TRUE, created |-> Range(types), released |-> {}]
      ELSE LET k == CHOOSE j \in DOMAIN types : types[j] = failing
           IN  [ok |-> FALSE, created |-> Before(k), released |-> {}]

\* createStreams_(streamInfosByType): |failing| is the type whose Stream
\* cannot be created ("": none).  Gives whether every Stream was created,
\* the types a Stream was created for and those whose Stream it destroyed.
createStreams_(streamInfosByType, failing) ==
  LET types == TypesIn(streamInfosByType)
      Before(k) == { types[j] : j \in 1..(k - 1) }
  IN  IF failing = ""
      THEN [ok |-> TRUE, created |-> Range(types), released |-> {}]
      ELSE LET k == CHOOSE j \in DOMAIN types : types[j] = failing
           IN  [ok |-> FALSE, created |-> Before(k), released |-> Before(k)]

\* startStreams_(): the duration given to the MediaSource and the time the
\* playhead is moved to
StartedSink(limits, live) ==
  IF live
  THEN [duration |-> limits.end + (60 * 60 * 24 * 30), currentTime |-> limits.end]
  ELSE [duration |-> limits.end - limits.start, currentTime |-> limits.start]

\* createStreams_ and startStreams_: one Stream per selected type, switched
\* to its StreamInfo; the text Stream is enabled iff subtitles are needed.
StartedStreams ==
  [ t \in Types |->
      IF selected[t] = << >> THEN << >>
      ELSE << [StreamSwitch(NewStream, selected[t][1], FALSE)
                 EXCEPT !.enabled = (t = "text" /\ subsNeeded)] >> ]

StartSwitches ==
  LET types == TypesIn(selected)
  IN  [k \in DOMAIN types |-> Switch(types[k], selected[types[k]][1], FALSE)]

\* attachPromise_.resolve() / reject(): a settled promise stays as it is
Settle(how) ==
  IF startCaller = "attach" /\ attachPromise = "pending" THEN how
  ELSE attachPromise

startStreamsContinue(createResult, shapes, failing) ==
  IF destroyed
  THEN \* the continuation dereferences the destroyed coordinator
       /\ startPhase' = "idle"
       /\ call' = Call("startStreams", "", "TypeError", << >>)
       /\ UNCHANGED << segmentIndex, streamsByType, attachPromise, updateTimer,
                       video, mediaSource >>
  ELSE IF createResult = "aborted"
  THEN /\ startPhase' = "aborted"
       /\ attachPromise' = Settle("resolved")
       /\ call' = Call("startStreams", "", "aborted", << >>)
       /\ UNCHANGED << segmentIndex, streamsByType, updateTimer, video,
                       mediaSource >>
  ELSE LET m == manifestInfo[1]
           types == TypesIn(selected)
           created == [i \in InfoIds |->
                         IF createResult = "ok" /\
                            \E t \in Types : selected[t] = << i >>
                         THEN CreatedIndex(i, shapes) ELSE segmentIndex[i]]
           indexes == [k \in DOMAIN types |-> created[selected[types[k]][1]][1]]
           streams == createStreams_(selected, failing)
           outcome == IF createResult # "ok" THEN "error"
                      ELSE StartOutcome(indexes, m.live, m.minBufferTime,
                                        m.periodDuration, streams.ok)
           \* the Streams createStreams_() made and those it destroyed,
           \* when the attempt got as far as createStreams_()
           made == IF createResult = "ok" /\
                      StartOutcome(indexes, m.live, m.minBufferTime,
                                   m.periodDuration, TRUE) = "ok"
                   THEN [created |-> streams.created,
                         released |-> streams.released]
                   ELSE [created |-> {}, released |-> {}]
       IN  /\ segmentIndex' = created
           /\ IF outcome = "ok"
              THEN LET limits == computeStreamLimits(
                                   indexes, m.live, m.minBufferTime,
                                   m.periodDuration)[1]
                       sink == StartedSink(limits, m.live)
                   IN
                   /\ streamsByType' = StartedStreams
                   /\ video' = [video EXCEPT
                                  !.originalPlaybackRate = << video.playbackRate >>,
                                  !.playbackRate = 0,
                                  !.currentTime = sink.currentTime]
                   /\ mediaSource' =
                        [mediaSource EXCEPT !.duration = << sink.duration >>]
                   /\ startPhase' = "starting"
                   /\ attachPromise' = Settle("resolved")
                   /\ call' = Call("startStreams", "", "ok", StartSwitches)
                                @@ made
                   /\ UNCHANGED updateTimer
              ELSE IF m.live
              THEN /\ setUpdateTimer_(0)
                   /\ startPhase' = "failed"
                   /\ attachPromise' = Settle("resolved")
                   /\ call' = Call("startStreams", "", "suppressed", << >>)
                                @@ made
                   /\ UNCHANGED << streamsByType, video, mediaSource >>
              ELSE /\ startPhase' = "failed"
                   /\ attachPromise' = Settle("rejected")
                   /\ call' = Call("startStreams", "", "rejected", << >>)
                                @@ made
                   /\ UNCHANGED << streamsByType, updateTimer, video,
                                   mediaSource >>

StartStreamsContinue ==
  /\ startPhase = "creating"
  /\ \E createResult \in {"ok", "aborted", "error"},
        videoShape \in IndexShapesOf("video"),
        failing \in {"", "audio", "video"} :
       /\ (failing # "" => selected[failing] # << >>)
       /\ startStreamsContinue(
            createResult,
            [t \in Types |-> IF t = "video" THEN videoShape ELSE FullIndex],
            failing)
  /\ UNCHANGED << manifestInfo, setStreamInfos, typeSupport, enabled,
                  infoDestroyed, streamDestroyed, streamSetsByType, loaded, lang, subsNeeded,
                  cachedRestrictions, attached, sourceOpenListener,
                  startCaller, selected, minTimestampCorrection,
                  maxTimestampCorrection, updateInFlight, updates,
                  errorEvents,
                  destroyed >>
  /\ UNCHANGED << precreate, shifted, resyncs, durationSource >>

(***************************************************************************)
(* onStreamStarted_(event): a Stream has appended its first segment and    *)
(* reports its timestamp correction.  When every Stream has started,       *)
(* onAllStreamsStarted_() asks for the playing StreamInfos' SegmentIndexes.*)
(***************************************************************************)
AllStarted(streams) ==
  \A t \in Types : streams[t] # << >> => streams[t][1].started

MinCorrection(old, c) == IF old = << >> THEN << c >> ELSE << Min2(old[1], c) >>

\* Math.max() replaced by keeping the first correction reported
MaxCorrection_keepingFirst(old, c) == IF old = << >> THEN << c >> ELSE old

MaxCorrection(old, c) == IF old = << >> THEN << c >> ELSE << Max2(old[1], c) >>

\* onStreamStarted_() going on to onAllStreamsStarted_() at every event
onStreamStarted_withoutWaiting(type, timestampCorrection) ==
  LET streams == [streamsByType EXCEPT ![type] =
                     << [@[1] EXCEPT !.started = TRUE,
                                     !.timestampCorrection = << timestampCorrection >>] >>]
  IN  /\ streamsByType' = streams
      /\ minTimestampCorrection' =
           MinCorrection(minTimestampCorrection, timestampCorrection)
      /\ maxTimestampCorrection' =
           MaxCorrection(maxTimestampCorrection, timestampCorrection)
      /\ startPhase' = "correcting"
      /\ selected' = [t \in Types |->
            IF streams[t] = << >> THEN << >> ELSE streams[t][1].streamInfo]
      /\ call' = Call("onStreamStarted", type, "ok", << >>)

onStreamStarted_(type, timestampCorrection) ==
  LET streams == [streamsByType EXCEPT ![type] =
                     << [@[1] EXCEPT !.started = TRUE,
                                     !.timestampCorrection = << timestampCorrection >>] >>]
  IN  /\ streamsByType' = streams
      /\ minTimestampCorrection' =
           MinCorrection(minTimestampCorrection, timestampCorrection)
      /\ maxTimestampCorrection' =
           MaxCorrection(maxTimestampCorrection, timestampCorrection)
      /\ IF AllStarted(streams)
         THEN /\ startPhase' = "correcting"
              /\ selected' = [t \in Types |->
                    IF streams[t] = << >> THEN << >> ELSE streams[t][1].streamInfo]
         ELSE UNCHANGED << startPhase, selected >>
      /\ call' = Call("onStreamStarted", type, "ok", << >>)

StreamStarted ==
  /\ ~destroyed
  /\ \E t \in Types, c \in {0, 1} :
       /\ streamsByType[t] # << >>
       /\ ~streamsByType[t][1].started
       /\ onStreamStarted_(t, c)
  /\ UNCHANGED << manifestInfo, setStreamInfos, typeSupport, enabled,
                  infoDestroyed, streamDestroyed, segmentIndex, streamSetsByType, loaded, lang,
                  subsNeeded, cachedRestrictions, attached,
                  sourceOpenListener, attachPromise, startCaller, updateTimer,
                  updateInFlight, updates, errorEvents, destroyed >>
  /\ UNCHANGED << playVars, durationSource >>

(***************************************************************************)
(* onAllStreamsStarted_(), continued: correct the playing SegmentIndexes,  *)
(* then poll until enough content is buffered.                             *)
(***************************************************************************)
\* SegmentIndex.correct(timestampCorrection)
Correct(index, delta) ==
  [k \in DOMAIN index |->
     [startTime |-> index[k].startTime + delta,
      endTime |-> IF index[k].endTime = << >> THEN << >>
                  ELSE << index[k].endTime[1] + delta >>]]

CorrectedIndexes(delta) ==
  [i \in InfoIds |->
     IF segmentIndex[i] # << >> /\ \E t \in Types : selected[t] = << i >>
     THEN << Correct(segmentIndex[i][1], delta) >>
     ELSE segmentIndex[i]]

\* the shifts given so far, after correct(delta) on the playing indexes
ShiftedPlaying(delta) ==
  [i \in InfoIds |->
     IF segmentIndex[i] # << >> /\ \E t \in Types : selected[t] = << i >>
     THEN shifted[i] + delta
     ELSE shifted[i]]

correctIndexes(createResult) ==
  IF destroyed
  THEN \* polling dereferences the destroyed coordinator; the handler of the
       \* chain dispatches the failure
       /\ startPhase' = "idle"
       /\ errorEvents' = TRUE
       /\ call' = Call("correctIndexes", "", "TypeError", << >>)
       /\ precreate' = "failed"
       /\ UNCHANGED << segmentIndex, shifted >>
  ELSE IF createResult # "ok"
  THEN /\ startPhase' = "stalled"
       /\ errorEvents' = (errorEvents \/ createResult # "aborted")
       /\ call' = Call("correctIndexes", "", createResult, << >>)
       /\ precreate' = "failed"
       /\ UNCHANGED << segmentIndex, shifted >>
  ELSE /\ segmentIndex' = CorrectedIndexes(maxTimestampCorrection[1])
       /\ shifted' = ShiftedPlaying(maxTimestampCorrection[1])
       /\ precreate' = "creating"
       /\ startPhase' = "buffering"
       /\ call' = Call("correctIndexes", "", "ok", << >>)
       /\ UNCHANGED errorEvents

CorrectIndexes ==
  /\ startPhase = "correcting"
  /\ \E createResult \in {"ok", "aborted", "error"} : correctIndexes(createResult)
  /\ UNCHANGED << manifestInfo, setStreamInfos, typeSupport, enabled,
                  infoDestroyed, streamDestroyed, streamSetsByType, loaded, lang, subsNeeded,
                  cachedRestrictions, streamsByType, attached,
                  sourceOpenListener, attachPromise, startCaller, selected,
                  minTimestampCorrection, maxTimestampCorrection, updateTimer,
                  updateInFlight, updates, destroyed >>
  /\ UNCHANGED << video, mediaSource, resyncs, durationSource >>

\* onAllStreamsStarted() leaving the playback rate at 0
onAllStreamsStarted_keepingRate ==
  video' = [video EXCEPT !.currentTime = @ + maxTimestampCorrection[1],
                         !.adjustments = @ + 1,
                         !.seekListener = "first"]

\* onAllStreamsStarted(segmentIndexes): adjust the playhead by the
\* correction, restore the playback rate, listen for the first seek
onAllStreamsStarted ==
  video' = [video EXCEPT !.currentTime = @ + maxTimestampCorrection[1],
                         !.adjustments = @ + 1,
                         !.playbackRate = video.originalPlaybackRate[1],
                         !.seekListener = "first"]

\* startIfBuffered() finds the buffer filled: onAllStreamsStarted(), then
\* setUpdateTimer_(0)
bufferFilled ==
  IF destroyed
  THEN /\ startPhase' = "idle"
       /\ call' = Call("bufferFilled", "", "TypeError", << >>)
       /\ UNCHANGED << updateTimer, video >>
  ELSE /\ onAllStreamsStarted
       /\ setUpdateTimer_(0)
       /\ startPhase' = "started"
       /\ call' = Call("bufferFilled", "", "ok", << >>)

BufferFilled ==
  /\ startPhase = "buffering"
  /\ bufferFilled
  /\ UNCHANGED << manifestInfo, setStreamInfos, typeSupport, enabled,
                  infoDestroyed, streamDestroyed, segmentIndex, streamSetsByType, loaded, lang,
                  subsNeeded, cachedRestrictions, streamsByType, attached,
                  sourceOpenListener, attachPromise, startCaller, selected,
                  minTimestampCorrection, maxTimestampCorrection,
                  updateInFlight, updates, errorEvents, destroyed >>
  /\ UNCHANGED << mediaSource, precreate, shifted, resyncs, durationSource >>

(***************************************************************************)
(* onAllStreamsStarted_(), second promise chain: once the playing          *)
(* SegmentIndexes exist, create the SegmentIndex of every StreamInfo of    *)
(* streamSetsByType and correct each of them.                              *)
(***************************************************************************)
\* the StreamInfos of streamSetsByType.getAll()
AllChosenInfos ==
  UNION { Range(InfosOfSets(streamSetsByType[t])) : t \in Types }

precreateIndexes(createResult) ==
  IF destroyed \/ createResult # "ok"
  THEN \* destroy() aborts the pending creations; the catch of the chain
       \* dispatches every failure that is not an abort
       /\ precreate' = "failed"
       /\ errorEvents' =
            (errorEvents \/ (~destroyed /\ createResult # "aborted"))
       /\ call' = Call("precreateIndexes", "",
                       IF destroyed THEN "aborted" ELSE createResult, << >>)
       /\ UNCHANGED << segmentIndex, shifted >>
  ELSE LET delta == maxTimestampCorrection[1] IN
       /\ segmentIndex' =
            [i \in InfoIds |->
               IF i \in AllChosenInfos
               THEN << Correct(CreatedIndex(i, [t \in Types |-> FullIndex])[1],
                               delta) >>
               ELSE segmentIndex[i]]
       /\ shifted' = [i \in InfoIds |->
                        IF i \in AllChosenInfos THEN shifted[i] + delta
                        ELSE shifted[i]]
       /\ precreate' = "done"
       /\ call' = Call("precreateIndexes", "", "ok", << >>)
       /\ UNCHANGED errorEvents

PrecreateIndexes ==
  /\ precreate = "creating"
  /\ \E createResult \in {"ok", "aborted", "error"} :
       precreateIndexes(createResult)
  /\ UNCHANGED << manifestInfo, setStreamInfos, typeSupport, enabled,
                  infoDestroyed, streamDestroyed, streamSetsByType, loaded,
                  lang, subsNeeded, cachedRestrictions, streamsByType,
                  attached, sourceOpenListener, attachPromise, startPhase,
                  startCaller, selected, minTimestampCorrection,
                  maxTimestampCorrection, updateTimer, updateInFlight,
                  updates, destroyed, video, mediaSource, resyncs,
                  durationSource >>

(***************************************************************************)
(* The 'seeking' event of the video element: nobody listens before         *)
(* onAllStreamsStarted(); its listener swallows the first event and        *)
(* installs onSeeking_(), which resyncs every Stream.                      *)
(***************************************************************************)
\* Stream.resync(): the Stream buffers again from the playhead
Resynced(streams) ==
  [t \in Types |->
     IF streams[t] = << >> THEN << >>
     ELSE << [streams[t][1] EXCEPT !.ended = FALSE] >>]

\* the listener of onAllStreamsStarted() installing onSeeking_() without
\* swallowing the event
onSeeking_fromFirstEvent ==
  /\ video' = [video EXCEPT !.seeks = @ + 1,
                            !.seekListener =
                               IF @ = "first" /\ ~destroyed THEN "armed" ELSE @]
  /\ IF video.seekListener = "none"
     THEN /\ call' = Call("seeking", "", "unheard", << >>)
          /\ UNCHANGED << streamsByType, resyncs, mediaSource >>
     ELSE IF destroyed
     THEN /\ call' = Call("seeking", "", "TypeError", << >>)
          /\ UNCHANGED << streamsByType, resyncs, mediaSource >>
     ELSE /\ resyncs' = [t \in Types |->
                           IF streamsByType[t] # << >> THEN resyncs[t] + 1
                           ELSE resyncs[t]]
          /\ streamsByType' = Resynced(streamsByType)
          /\ mediaSource' = [mediaSource EXCEPT !.readyState =
                               IF @ = "ended" THEN "open" ELSE @]
          /\ call' = Call("seeking", "", "resync", << >>)

onSeeking_ ==
  /\ video' = [video EXCEPT !.seeks = @ + 1,
                            !.seekListener =
                               IF @ = "first" /\ ~destroyed THEN "armed" ELSE @]
  /\ IF video.seekListener = "none"
     THEN /\ call' = Call("seeking", "", "unheard", << >>)
          /\ UNCHANGED << streamsByType, resyncs, mediaSource >>
     ELSE IF video.seekListener = "first"
     THEN \* after destroy() the listener dereferences this.video (null)
          /\ call' = Call("seeking", "",
                          IF destroyed THEN "TypeError" ELSE "ignored", << >>)
          /\ UNCHANGED << streamsByType, resyncs, mediaSource >>
     ELSE \* onSeeking(); a Stream that appends again reopens the MediaSource
          /\ resyncs' = [t \in Types |->
                           IF streamsByType[t] # << >> THEN resyncs[t] + 1
                           ELSE resyncs[t]]
          /\ streamsByType' = Resynced(streamsByType)
          /\ mediaSource' = [mediaSource EXCEPT !.readyState =
                               IF @ = "ended" THEN "open" ELSE @]
          /\ call' = Call("seeking", "", "resync", << >>)

Seeking ==
  /\ attached \/ destroyed
  /\ video.seeks < MaxSeeks
  /\ onSeeking_
  /\ UNCHANGED << manifestInfo, setStreamInfos, typeSupport, enabled,
                  infoDestroyed, streamDestroyed, segmentIndex,
                  streamSetsByType, loaded, lang, subsNeeded,
                  cachedRestrictions, attached, sourceOpenListener,
                  attachPromise, startPhase, startCaller, selected,
                  minTimestampCorrection, maxTimestampCorrection, updateTimer,
                  updateInFlight, updates, errorEvents, destroyed, precreate,
                  shifted, durationSource >>

(***************************************************************************)
(* onStreamEnded_(event): a Stream has appended its last segment.          *)
(***************************************************************************)
AllEnded(streams) ==
  \A t \in Types : streams[t] # << >> => streams[t][1].ended

\* onStreamEnded_() without the check of mediaSource.readyState
onStreamEnded_withoutReadyStateCheck(type) ==
  LET streams == [streamsByType EXCEPT ![type] = << [@[1] EXCEPT !.ended = TRUE] >>]
  IN  /\ streamsByType' = streams
      /\ IF manifestInfo[1].live
         THEN /\ call' = Call("onStreamEnded", type, "live", << >>)
              /\ UNCHANGED mediaSource
         ELSE IF ~AllEnded(streams)
         THEN /\ call' = Call("onStreamEnded", type, "waiting", << >>)
              /\ UNCHANGED mediaSource
         ELSE /\ mediaSource' = [mediaSource EXCEPT !.readyState = "ended",
                                                    !.endOfStream = @ + 1]
              /\ call' = Call("onStreamEnded", type, "endOfStream", << >>)

onStreamEnded_(type) ==
  LET streams == [streamsByType EXCEPT ![type] = << [@[1] EXCEPT !.ended = TRUE] >>]
  IN  /\ streamsByType' = streams
      /\ IF manifestInfo[1].live
         THEN /\ call' = Call("onStreamEnded", type, "live", << >>)
              /\ UNCHANGED mediaSource
         ELSE IF ~AllEnded(streams)
         THEN /\ call' = Call("onStreamEnded", type, "waiting", << >>)
              /\ UNCHANGED mediaSource
         ELSE IF mediaSource.readyState # "open"
         THEN /\ call' = Call("onStreamEnded", type, "notOpen", << >>)
              /\ UNCHANGED mediaSource
         ELSE /\ mediaSource' = [mediaSource EXCEPT !.readyState = "ended",
                                                    !.endOfStream = @ + 1]
              /\ call' = Call("onStreamEnded", type, "endOfStream", << >>)

StreamEnded ==
  /\ ~destroyed
  /\ \E t \in Types :
       /\ streamsByType[t] # << >>
       /\ streamsByType[t][1].started
       /\ ~streamsByType[t][1].ended
       /\ onStreamEnded_(t)
  /\ UNCHANGED << manifestInfo, setStreamInfos, typeSupport, enabled,
                  infoDestroyed, streamDestroyed, segmentIndex,
                  streamSetsByType, loaded, lang, subsNeeded,
                  cachedRestrictions, attached, sourceOpenListener,
                  attachPromise, startPhase, startCaller, selected,
                  minTimestampCorrection, maxTimestampCorrection, updateTimer,
                  updateInFlight, updates, errorEvents, destroyed, video,
                  precreate, shifted, resyncs, durationSource >>

\* the MediaSource is detached from the video element (readyState 'closed')
MediaSourceClosed ==
  /\ mediaSource.readyState = "open"
  /\ mediaSource' = [mediaSource EXCEPT !.readyState = "closed"]
  /\ call' = Call("sourceclose", "", "ok", << >>)
  /\ UNCHANGED << manifestInfo, setStreamInfos, typeSupport, enabled,
                  infoDestroyed, streamDestroyed, segmentIndex,
                  streamSetsByType, loaded, lang, subsNeeded,
                  cachedRestrictions, streamsByType, attached,
                  sourceOpenListener, attachPromise, startPhase, startCaller,
                  selected, minTimestampCorrection, maxTimestampCorrection,
                  updateTimer, updateInFlight, updates, errorEvents,
                  destroyed, video, precreate, shifted, resyncs,
                  durationSource >>

(***************************************************************************)
(* onUpdateManifest_(), first part: the update timer fires and the         *)
(* manifest is requested.                                                  *)
(***************************************************************************)
\* onUpdateManifest_() without |this.updateTimer_ = null|
onUpdateManifest_keepingTimer ==
  /\ updateTimer # << >>
  /\ updates < MaxUpdates
  /\ updates' = updates + 1
  /\ updateInFlight' = TRUE
  /\ call' = Call("onUpdateManifest", "", "ok", << >>)
  /\ UNCHANGED << manifestInfo, setStreamInfos, typeSupport, enabled,
                  infoDestroyed, streamDestroyed, segmentIndex,
                  streamSetsByType, loaded, lang, subsNeeded,
                  cachedRestrictions, streamsByType, attached,
                  sourceOpenListener, attachPromise, startPhase, startCaller,
                  selected, minTimestampCorrection, maxTimestampCorrection,
                  updateTimer, errorEvents, destroyed >>
  /\ UNCHANGED << playVars, durationSource >>

onUpdateManifest_ ==
  /\ updateTimer # << >>
  /\ updates < MaxUpdates
  /\ updates' = updates + 1
  /\ updateTimer' = << >>
  /\ updateInFlight' = TRUE
  /\ call' = Call("onUpdateManifest", "", "ok", << >>)
  /\ UNCHANGED << manifestInfo, setStreamInfos, typeSupport, enabled,
                  infoDestroyed, streamDestroyed, segmentIndex, streamSetsByType, loaded, lang,
                  subsNeeded, cachedRestrictions, streamsByType, attached,
                  sourceOpenListener, attachPromise, startPhase, startCaller,
                  selected, minTimestampCorrection, maxTimestampCorrection,
                  errorEvents,
                  destroyed >>
  /\ UNCHANGED << playVars, durationSource >>

(***************************************************************************)
(* ManifestUpdater.update(manifestInfo): the StreamInfos listed in         *)
(* |removed| leave their StreamSetInfos, and new SegmentReferences arrive. *)
(***************************************************************************)
\* the StreamInfos an update may remove: a video StreamInfo of a
\* StreamSetInfo that keeps at least one other StreamInfo
Removable ==
  { i \in InfoIds : \E s \in ManifestSets :
      /\ i \in Range(setStreamInfos[s])
      /\ Len(setStreamInfos[s]) >= 2
      /\ StreamInfos[i].contentType = "video" }

RemovedChoices == { << >> } \cup { << i >> : i \in Removable }

\* A StreamInfo a manifest update may bring in: a new StreamInfo object
\* (enabled, as every StreamInfo is until setRestrictions() visits it), put at
\* the end of the StreamSetInfo of its type and container.
AddedChoices ==
  { << >> } \cup
  { << i >> : i \in { j \in {7} : /\ j \notin ManifestStreamInfos
                                 /\ 0 \in ManifestSets
                                 /\ enabled[j] } }

MergedSetStreamInfos(removed, added) ==
  [ s \in SetIds |->
      SelectSeq(setStreamInfos[s], LAMBDA i : i \notin Range(removed))
        \o (IF s = 0 THEN added ELSE << >>) ]

UpdatedSegmentIndex(grow) ==
  [ i \in InfoIds |->
      IF grow /\ segmentIndex[i] = << << >> >> THEN << FullIndex >>
      ELSE segmentIndex[i] ]

(***************************************************************************)
(* removeStream_(streamInfo), on the running state                         *)
(* [streams, infoDestroyed, switches, threw] of the update handler.        *)
(***************************************************************************)
\* removeStream_() switching without |immediate|
removeStream_switchingLazily(st, streamInfo, setInfos) ==
  LET type == StreamInfos[streamInfo].contentType
      stream == st.streams[type]
  IN  IF st.threw THEN st
      ELSE IF stream # << >> /\ stream[1].streamInfo = << streamInfo >>
      THEN IF streamSetsByType[type] = << >>
           THEN [st EXCEPT !.threw = TRUE]
           ELSE LET newStreamInfos ==
                      SelectSeq(InfosOfSetsIn(setInfos, streamSetsByType[type]),
                                IsEnabled)
                IN  IF newStreamInfos = << >>
                    THEN st
                    ELSE [st EXCEPT
                            !.streams[type] =
                               << StreamSwitch(stream[1], newStreamInfos[1], FALSE) >>,
                            !.switches =
                               Append(@, Switch(type, newStreamInfos[1], FALSE)),
                            !.infoDestroyed[streamInfo] = @ + 2]
      ELSE [st EXCEPT !.infoDestroyed[streamInfo] = @ + 1]

\* removeStream_() going on to destroy the StreamInfo it could not replace
removeStream_withoutEarlyReturn(st, streamInfo, setInfos) ==
  LET type == StreamInfos[streamInfo].contentType
      stream == st.streams[type]
  IN  IF st.threw THEN st
      ELSE IF stream # << >> /\ stream[1].streamInfo = << streamInfo >>
      THEN IF streamSetsByType[type] = << >>
           THEN [st EXCEPT !.threw = TRUE]
           ELSE LET newStreamInfos ==
                      SelectSeq(InfosOfSetsIn(setInfos, streamSetsByType[type]),
                                IsEnabled)
                IN  IF newStreamInfos = << >>
                    THEN [st EXCEPT !.infoDestroyed[streamInfo] = @ + 1]
                    ELSE [st EXCEPT
                            !.streams[type] =
                               << StreamSwitch(stream[1], newStreamInfos[1], TRUE) >>,
                            !.switches =
                               Append(@, Switch(type, newStreamInfos[1], TRUE)),
                            !.infoDestroyed[streamInfo] = @ + 2]
      ELSE [st EXCEPT !.infoDestroyed[streamInfo] = @ + 1]

removeStream_(st, streamInfo, setInfos) ==
  LET type == StreamInfos[streamInfo].contentType
      stream == st.streams[type]
  IN  IF st.threw THEN st
      ELSE IF stream # << >> /\ stream[1].streamInfo = << streamInfo >>
      THEN IF streamSetsByType[type] = << >>
           THEN \* streamSetsByType.get(type) is null
                [st EXCEPT !.threw = TRUE]
           ELSE LET newStreamInfos ==
                      SelectSeq(InfosOfSetsIn(setInfos, streamSetsByType[type]),
                                IsEnabled)
                IN  IF newStreamInfos = << >>
                    THEN st
                    ELSE [st EXCEPT
                            !.streams[type] =
                               << StreamSwitch(stream[1], newStreamInfos[1], TRUE) >>,
                            !.switches =
                               Append(@, Switch(type, newStreamInfos[1], TRUE)),
                            !.infoDestroyed[streamInfo] = @ + 2]
      ELSE [st EXCEPT !.infoDestroyed[streamInfo] = @ + 1]

RECURSIVE RemoveStreams(_, _, _)
RemoveStreams(st, removed, setInfos) ==
  IF removed = << >> THEN st
  ELSE RemoveStreams(removeStream_(st, Head(removed), setInfos),
                     Tail(removed), setInfos)

NoStreams(streams) == \A t \in Types : streams[t] = << >>

(***************************************************************************)
(* onUpdateManifest_(), second part: the manifest has been fetched and     *)
(* merged.                                                                 *)
(***************************************************************************)
\* the update handler arming the timer also when it retries the start
updateSucceeded_armingOnRetry(removed, grow, elapsed, estimate) ==
  IF destroyed
  THEN \* the handler dereferences the destroyed coordinator; the catch
       \* dispatches the failure
       /\ errorEvents' = TRUE
       /\ call' = Call("updateManifest", "", "TypeError", << >>)
       /\ UNCHANGED << setStreamInfos, segmentIndex, streamsByType,
                       infoDestroyed, enabled, updateTimer, startPhase,
                       startCaller, selected >>
  ELSE LET setInfos == MergedSetStreamInfos(removed, << >>)
           st == RemoveStreams(
                   [streams |-> streamsByType, infoDestroyed |-> infoDestroyed,
                    switches |-> << >>, threw |-> FALSE],
                   removed, setInfos)
       IN  /\ setStreamInfos' = setInfos
           /\ segmentIndex' = UpdatedSegmentIndex(grow)
           /\ streamsByType' = st.streams
           /\ infoDestroyed' = st.infoDestroyed
           /\ IF st.threw
              THEN /\ errorEvents' = TRUE
                   /\ call' = Call("updateManifest", "", "TypeError",
                                   st.switches)
                   /\ UNCHANGED << enabled, updateTimer, startPhase,
                                   startCaller, selected >>
              ELSE /\ enabled' = IF cachedRestrictions # << >>
                                 THEN EnabledAfterIn(setInfos, cachedRestrictions[1])
                                 ELSE enabled
                   /\ call' = Call("updateManifest", "", "ok", st.switches)
                                @@ [elapsed |-> elapsed]
                   /\ UNCHANGED errorEvents
                   /\ IF NoStreams(st.streams)
                      THEN /\ createAndStartStreams_("update", estimate,
                                                     setInfos, enabled')
                           /\ setUpdateTimer_(elapsed)
                      ELSE /\ setUpdateTimer_(elapsed)
                           /\ UNCHANGED << startPhase, startCaller, selected >>

updateMerged(removed, added, grow, elapsed, estimate) ==
  IF destroyed
  THEN \* the handler dereferences the destroyed coordinator; the catch
       \* dispatches the failure
       /\ errorEvents' = TRUE
       /\ call' = Call("updateManifest", "", "TypeError", << >>)
       /\ UNCHANGED << setStreamInfos, segmentIndex, streamsByType,
                       infoDestroyed, enabled, updateTimer, startPhase,
                       startCaller, selected >>
  ELSE LET setInfos == MergedSetStreamInfos(removed, added)
           st == RemoveStreams(
                   [streams |-> streamsByType, infoDestroyed |-> infoDestroyed,
                    switches |-> << >>, threw |-> FALSE],
                   removed, setInfos)
       IN  /\ setStreamInfos' = setInfos
           /\ segmentIndex' = UpdatedSegmentIndex(grow)
           /\ streamsByType' = st.streams
           /\ infoDestroyed' = st.infoDestroyed
           /\ IF st.threw
              THEN /\ errorEvents' = TRUE
                   /\ call' = Call("updateManifest", "", "TypeError",
                                   st.switches)
                   /\ UNCHANGED << enabled, updateTimer, startPhase,
                                   startCaller, selected >>
              ELSE /\ enabled' = IF cachedRestrictions # << >>
                                 THEN EnabledAfterIn(setInfos, cachedRestrictions[1])
                                 ELSE enabled
                   /\ call' = Call("updateManifest", "", "ok", st.switches)
                                @@ [elapsed |-> elapsed]
                   /\ UNCHANGED errorEvents
                   /\ IF NoStreams(st.streams)
                      THEN /\ createAndStartStreams_("update", estimate,
                                                     setInfos, enabled')
                           /\ UNCHANGED updateTimer
                      ELSE /\ setUpdateTimer_(elapsed)
                           /\ UNCHANGED << startPhase, startCaller, selected >>

\* an update that removes StreamInfos and adds none
updateSucceeded(removed, grow, elapsed, estimate) ==
  updateMerged(removed, << >>, grow, elapsed, estimate)

UpdateSucceeded ==
  /\ updateInFlight
  /\ updateInFlight' = FALSE
  /\ \E removed \in RemovedChoices, grow \in BOOLEAN, elapsed \in {0, 3},
        estimate \in Estimates :
       updateSucceeded(removed, grow, elapsed, estimate)
  /\ UNCHANGED << manifestInfo, typeSupport, streamDestroyed, streamSetsByType,
                  loaded, lang, subsNeeded, cachedRestrictions, attached,
                  sourceOpenListener, attachPromise, minTimestampCorrection,
                  maxTimestampCorrection, updates, destroyed >>
  /\ UNCHANGED << playVars, durationSource >>

\* the same with updates that may also add a StreamInfo
UpdateMerged ==
  /\ updateInFlight
  /\ updateInFlight' = FALSE
  /\ \E removed \in RemovedChoices, added \in AddedChoices, grow \in BOOLEAN, elapsed \in {0, 3},
        estimate \in Estimates :
       updateMerged(removed, added, grow, elapsed, estimate)
  /\ UNCHANGED << manifestInfo, typeSupport, streamDestroyed, streamSetsByType,
                  loaded, lang, subsNeeded, cachedRestrictions, attached,
                  sourceOpenListener, attachPromise, minTimestampCorrection,
                  maxTimestampCorrection, updates, destroyed >>
  /\ UNCHANGED << playVars, durationSource >>

\* the catch of onUpdateManifest_() dispatching every error
updateFailed_dispatchingAborted(errorType) ==
  /\ errorEvents' = TRUE
  /\ call' = Call("updateManifest", "", errorType, << >>)

\* the fetch or the merge failed with an error of the given type
updateFailed(errorType) ==
  /\ errorEvents' = (errorEvents \/ errorType # "aborted")
  /\ call' = Call("updateManifest", "", errorType, << >>)

UpdateFailed ==
  /\ updateInFlight
  /\ updateInFlight' = FALSE
  /\ \E errorType \in {"aborted", "network"} : updateFailed(errorType)
  /\ UNCHANGED << manifestInfo, setStreamInfos, typeSupport, enabled,
                  infoDestroyed, streamDestroyed, segmentIndex, streamSetsByType, loaded, lang,
                  subsNeeded, cachedRestrictions, streamsByType, attached,
                  sourceOpenListener, attachPromise, startPhase, startCaller,
                  selected, minTimestampCorrection, maxTimestampCorrection,
                  updateTimer, updates, destroyed >>
  /\ UNCHANGED << playVars, durationSource >>

(***************************************************************************)
(* destroy()                                                               *)
(***************************************************************************)
\* destroy() without cancelUpdateTimer_()
destroy_withoutCancelUpdateTimer ==
  IF destroyed
  THEN /\ call' = Call("destroy", "", "TypeError", << >>)
       /\ UNCHANGED << manifestInfo, setStreamInfos, segmentIndex,
                       streamDestroyed, streamSetsByType, cachedRestrictions,
                       streamsByType, attached, sourceOpenListener,
                       updateTimer, destroyed, video >>
  ELSE /\ setStreamInfos' = [s \in SetIds |-> << >>]
       /\ segmentIndex' = [i \in InfoIds |-> << >>]
       /\ updateTimer' = updateTimer
       /\ sourceOpenListener' = FALSE
       /\ streamDestroyed' =
            [t \in Types |->
               IF streamsByType[t] # << >> THEN streamDestroyed[t] + 1
               ELSE streamDestroyed[t]]
       /\ streamsByType' = [t \in Types |-> << >>]
       /\ streamSetsByType' = [t \in Types |-> << >>]
       /\ manifestInfo' = << >>
       /\ attached' = FALSE
       /\ cachedRestrictions' = << >>
       /\ destroyed' = TRUE
       /\ video' = [video EXCEPT !.seekListener =
                                   IF @ = "armed" THEN "none" ELSE @]
       /\ call' = Call("destroy", "", "ok", << >>)

destroy ==
  IF destroyed
  THEN \* this.eventManager is null
       /\ call' = Call("destroy", "", "TypeError", << >>)
       /\ UNCHANGED << manifestInfo, setStreamInfos, segmentIndex,
                       streamDestroyed, streamSetsByType, cachedRestrictions,
                       streamsByType, attached, sourceOpenListener,
                       updateTimer, destroyed, video >>
  ELSE \* manifestInfo.destroy() destroys every StreamSetInfo, StreamInfo
       \* and SegmentIndexSource of the manifest
       /\ setStreamInfos' = [s \in SetIds |-> << >>]
       /\ segmentIndex' = [i \in InfoIds |-> << >>]
       /\ updateTimer' = << >>
       /\ sourceOpenListener' = FALSE
       /\ streamDestroyed' =
            [t \in Types |->
               IF streamsByType[t] # << >> THEN streamDestroyed[t] + 1
               ELSE streamDestroyed[t]]
       /\ streamsByType' = [t \in Types |-> << >>]
       /\ streamSetsByType' = [t \in Types |-> << >>]
       /\ manifestInfo' = << >>
       /\ attached' = FALSE
       /\ cachedRestrictions' = << >>
       /\ destroyed' = TRUE
       /\ video' = [video EXCEPT !.seekListener =
                                   IF @ = "armed" THEN "none" ELSE @]
       /\ call' = Call("destroy", "", "ok", << >>)

Destroy ==
  /\ destroy
  /\ UNCHANGED << typeSupport, enabled, infoDestroyed,
                  loaded, lang, subsNeeded, attachPromise,
                  startPhase, startCaller, selected, minTimestampCorrection,
                  maxTimestampCorrection, updateInFlight, updates,
                  errorEvents >>
  /\ UNCHANGED << mediaSource, precreate, shifted, resyncs, durationSource >>

Next ==
  \/ Load
  \/ SelectConfigurations
  \/ SetRestrictions
  \/ SelectVideoTrack
  \/ SelectAudioTrack
  \/ SelectTextTrack
  \/ Attach
  \/ onMediaSourceOpen_
  \/ StartStreamsContinue
  \/ StreamStarted
  \/ CorrectIndexes
  \/ BufferFilled
  \/ onUpdateManifest_
  \/ UpdateSucceeded
  \/ UpdateFailed
  \/ Destroy

Spec == Init /\ [][Next]_vars
(***************************************************************************)
(* Properties of load() and attach().                                      *)
(***************************************************************************)
\* C1: once a load() has succeeded, every further load() is rejected and
\* leaves the loaded flag, the remembered language and the manifest as they
\* were.
C1_SecondLoadRejected ==
  [][ (loaded /\ call'.op = "load") =>
        /\ call'.result = "rejected"
        /\ loaded' = loaded
        /\ lang' = lang
        /\ manifestInfo' = manifestInfo
        /\ setStreamInfos' = setStreamInfos ]_vars

\* a load() has been rejected on a loaded coordinator
C1_Witness ==
  loaded /\ ~destroyed /\ call.op = "load" /\ call.result = "rejected"

\* some period of the manifest keeps a stream set after processing
SomePeriodPlayable ==
  /\ manifestInfo # << >>
  /\ \E p \in DOMAIN manifestInfo[1].periodInfos :
       ProcessedPeriods(manifestInfo[1].periodInfos)[p] # << >>

\* C2: a load() on a coordinator that is not loaded is rejected exactly when,
\* after processing, no period has a playable stream set; otherwise it
\* succeeds and marks the coordinator loaded, and a rejected load() does not.
C2_LoadRejectedIffNoPeriodPlayable ==
  [][ (~loaded /\ call'.op = "load") =>
        /\ (call'.result = "rejected") <=> ~SomePeriodPlayable
        /\ (call'.result = "resolved") <=> SomePeriodPlayable
        /\ loaded' <=> (call'.result = "resolved") ]_vars

\* C3: attach() on a coordinator that is not loaded is rejected and has no
\* effect: the sink is not bound, no listener is registered, the start
\* sequence is not entered; and a Stream only ever exists on a coordinator
\* whose attach() was accepted.
C3_AttachBeforeLoadRejected ==
  [][ /\ (~loaded /\ call'.op = "attach") =>
           /\ call'.result = "rejected"
           /\ UNCHANGED << attached, sourceOpenListener, streamsByType,
                           startPhase, startCaller, selected, attachPromise >>
      /\ sourceOpenListener' => (attached' /\ loaded')
      /\ (\E t \in Types : streamsByType'[t] # << >>) => (attached' /\ loaded')
    ]_vars

\* an attach() has been rejected on a coordinator that is not loaded
C3_Witness ==
  ~loaded /\ ~attached /\ call.op = "attach" /\ call.result = "rejected"

C5_StartFailureSurfacedOrRetried ==
  [][ (startPhase = "creating" /\ call'.op = "startStreams" /\
       call'.result \in {"suppressed", "rejected"}) =>
        IF manifestInfo[1].live
        THEN /\ call'.result = "suppressed"
             /\ startCaller = "attach" => attachPromise' = "resolved"
             /\ errorEvents' = errorEvents
             /\ updateTimer' # << >>
        ELSE /\ call'.result = "rejected"
             /\ startCaller = "attach" => attachPromise' = "rejected" ]_vars

(***************************************************************************)
(* Properties of the track listings and of the track selection.            *)
(***************************************************************************)
\* C6: no listing (video, audio, text) lists a StreamInfo whose enabled flag
\* is false.
C6_ListingsOmitDisabled ==
  ~destroyed =>
    \A type \in Types : \A k \in DOMAIN getTracks(type) :
      enabled[getTracks(type)[k].id]

\* C7: a listed track is flagged active only if the Stream of its type exists
\* and reports that StreamInfo; with no Stream of a type no track of the type
\* is active.
C7_ActiveOnlyIfPlaying ==
  ~destroyed =>
    \A type \in Types : \A k \in DOMAIN getTracks(type) :
      getTracks(type)[k].active =>
        /\ streamsByType[type] # << >>
        /\ streamsByType[type][1].streamInfo = << getTracks(type)[k].id >>

\* what selectTrack_(type, id, immediate) is to do in the current state
SelectContract(type, id, immediate) ==
  IF \/ streamSetsByType[type] = << >>
     \/ streamsByType[type] = << >>
     \/ ~\E k \in DOMAIN streamSetsByType[type] :
           id \in Range(setStreamInfos[streamSetsByType[type][k]])
  THEN /\ call'.result = "false"
       /\ call'.switches = << >>
       /\ streamsByType' = streamsByType
  ELSE /\ call'.result = "true"
       /\ call'.switches = << Switch(type, id, immediate) >>
       /\ streamsByType'[type][1].streamInfo = << id >>
       /\ \A t \in Types \ {type} : streamsByType'[t] = streamsByType[t]

\* C8: select*Track(id, immediate) returns false and switches no Stream when
\* the type has no selected sets, no Stream, or no StreamInfo with the id;
\* otherwise it switches the Stream of the type, and only it, once, to the
\* matching StreamInfo with the given immediate flag, and returns true.
C8_SelectTrackContract ==
  [][ (~destroyed /\ call'.op = "selectTrack") =>
        \A id \in SelectIds, immediate \in BOOLEAN :
          selectTrack_(call'.type, id, immediate) =>
            SelectContract(call'.type, id, immediate) ]_vars

\* a select*Track() has switched a Stream at once and returned true
C8_Witness ==
  /\ call.op = "selectTrack"
  /\ call.result = "true"
  /\ call.switches # << >>
  /\ call.switches[1].immediate

\* C9: after a select*Track(id) that returned true, the listing of the type
\* holds a track with that id, flagged active.
C9_SelectedIsListedActive ==
  (call.op = "selectTrack" /\ call.result = "true") =>
    \E k \in DOMAIN getTracks(call.type) :
      /\ getTracks(call.type)[k].id = call.switches[1].info
      /\ getTracks(call.type)[k].active

\* C10: no handler passes a StreamInfo whose enabled flag is false to
\* Stream.switch.
C10_NoSwitchToDisabled ==
  \A k \in DOMAIN call.switches : enabled[call.switches[k].info]
(***************************************************************************)
(* Properties of setRestrictions() on a playing coordinator, of destroy()  *)
(* and of the update timer.                                                *)
(***************************************************************************)
\* the enabled StreamInfos of the selected sets of |type|, after the step
EnabledPeers(type) ==
  { i \in Range(InfosOfSets(streamSetsByType[type])) : enabled'[i] }

\* C13: when setRestrictions() disables the StreamInfo a Stream plays, that
\* Stream is switched at once (immediate) to an enabled StreamInfo of its
\* type, or the call fails when the type has none; the Streams whose
\* StreamInfo stays enabled are not switched.
C13_RestrictionSwitchesPlaying ==
  [][ (call'.op = "setRestrictions" /\ call'.result # "ignored" /\ ~destroyed) =>
        \A t \in Types :
          (streamsByType[t] # << >> /\ streamsByType[t][1].streamInfo # << >>) =>
            IF enabled'[streamsByType[t][1].streamInfo[1]]
            THEN /\ streamsByType'[t] = streamsByType[t]
                 /\ \A k \in DOMAIN call'.switches : call'.switches[k].type # t
            ELSE IF EnabledPeers(t) # {}
            THEN \E k \in DOMAIN call'.switches :
                   /\ call'.switches[k].type = t
                   /\ call'.switches[k].immediate
                   /\ call'.switches[k].info \in EnabledPeers(t)
                   /\ streamsByType'[t][1].streamInfo = << call'.switches[k].info >>
            ELSE call'.result = "NoPlayableStream" ]_vars

\* the public calls of the coordinator that the model runs
PublicOps ==
  { "load", "attach", "selectTrack", "selectConfigurations",
    "setRestrictions", "destroy" }

\* C14: after destroy() a public call does nothing or reports that the
\* coordinator is destroyed; it never fails in another way, and a second
\* destroy() completes without error.
C14_CallsAfterDestroyAreSafe ==
  (destroyed /\ call.op \in PublicOps) => call.result # "TypeError"

\* C15: when destroy() returns the update timer is not armed, the coordinator
\* holds no Stream, every Stream it held has received destroy() exactly
\* once, and the manifest (its StreamSetInfos, StreamInfos and
\* SegmentIndexSources) is destroyed.
C15_DestroyReleasesEverything ==
  [][ (call'.op = "destroy" /\ call'.result = "ok") =>
        /\ updateTimer' = << >>
        /\ NoStreams(streamsByType')
        /\ \A t \in Types :
             streamDestroyed'[t] = IF streamsByType[t] # << >> THEN 1 ELSE 0
        /\ manifestInfo' = << >>
        /\ \A s \in SetIds : setStreamInfos'[s] = << >>
        /\ \A i \in InfoIds : segmentIndex'[i] = << >> ]_vars

\* destroy() has returned on a coordinator that held a video Stream and had
\* run a manifest update
C15_Witness ==
  /\ call.op = "destroy"
  /\ call.result = "ok"
  /\ streamDestroyed["video"] = 1
  /\ updates > 0

\* C19: once the handler of a manifest update has run (the update succeeded,
\* or failed with an error that is not 'aborted') on a coordinator that is
\* not destroyed, the update timer is armed again, or the start of the
\* Streams, which arms it, is being retried; a failure is reported by an
\* error event.
C19_UpdateRearmsTimer ==
  (~destroyed /\ call.op = "updateManifest" /\ call.result \in {"ok", "network"}) =>
    /\ updateTimer # << >> \/ startPhase = "creating"
    /\ call.result = "network" => errorEvents

\* this step runs setUpdateTimer_()
CallsSetUpdateTimer ==
  \/ call'.op = "startStreams" /\ call'.result = "suppressed"
  \/ call'.op = "bufferFilled" /\ call'.result = "ok"
  \/ call'.op = "updateManifest" /\ call'.result = "ok" /\ ~NoStreams(streamsByType')

\* C20: the update timer is never armed while a manifest update is in
\* flight, the timer fires only when no update is in flight (so at most one
\* is), and every call of setUpdateTimer_() finds the timer not armed.
C20_UpdatesAreSerialised ==
  [][ /\ ~(updateInFlight' /\ updateTimer' # << >>)
      /\ call'.op = "onUpdateManifest" => ~updateInFlight
      /\ CallsSetUpdateTimer => updateTimer = << >> ]_vars

\* the handler of a successful update has armed the timer again
C20_Witness ==
  /\ ~destroyed
  /\ call.op = "updateManifest"
  /\ call.result = "ok"
  /\ updateTimer # << >>
(***************************************************************************)
(* setRestrictions() explored alone, with every combination of limits, on  *)
(* a manifest of two periods.                                              *)
(***************************************************************************)
InitRestrict ==
  /\ Constructed(RestrictManifest, FALSE, << >>)
  /\ durationSource = << >>

NextRestrict ==
  \/ Load
  \/ SelectConfigurations
  \/ SetAnyRestrictions

SpecRestrict == InitRestrict /\ [][NextRestrict]_vars

\* this step is a setRestrictions() that ran its loop
RestrictionsApplied == call'.op = "setRestrictions" /\ call'.result = "ok"

\* C11: setRestrictions(r) right after setRestrictions(r) leaves the enabled
\* flag of every StreamInfo of every period as it is, and the flags it
\* leaves are those it would leave had every flag been true, or every flag
\* been false, before the call.
C11_RestrictionsIdempotent ==
  [][ RestrictionsApplied =>
        /\ (call.op = "setRestrictions" /\ call.result = "ok" /\
            cachedRestrictions' = cachedRestrictions) => enabled' = enabled
        /\ \A b \in BOOLEAN : \A i \in ManifestStreamInfos :
             enabled'[i] =
               EnabledFrom([j \in InfoIds |-> b], setStreamInfos,
                           cachedRestrictions'[1])[i] ]_vars

\* the same restrictions have been applied twice in a row, with a StreamInfo
\* disabled and another enabled
C11_Witness ==
  /\ call.op = "setRestrictions"
  /\ call.result = "ok"
  /\ cachedRestrictions # << >>
  /\ \E i, j \in ManifestStreamInfos : ~enabled[i] /\ enabled[j]

\* |i| breaks a limit that |r| sets (0: the limit is absent)
ExceedsLimits(i, r) ==
  \/ (r.maxWidth > 0 /\ StreamInfos[i].width > r.maxWidth)
  \/ (r.maxHeight > 0 /\ StreamInfos[i].height > r.maxHeight)
  \/ (r.maxBandwidth > 0 /\ StreamInfos[i].bandwidth > r.maxBandwidth)
  \/ (r.minBandwidth > 0 /\ StreamInfos[i].bandwidth < r.minBandwidth)

\* C12: after setRestrictions(r) on a loaded coordinator every StreamInfo of
\* every period is enabled exactly when it breaks none of the limits r sets.
C12_EnabledIffWithinLimits ==
  [][ RestrictionsApplied =>
        \A p \in DOMAIN manifestInfo[1].periodInfos :
          \A k \in DOMAIN manifestInfo[1].periodInfos[p] :
            \A i \in Range(setStreamInfos[manifestInfo[1].periodInfos[p][k]]) :
              enabled'[i] <=> ~ExceedsLimits(i, cachedRestrictions'[1]) ]_vars

\* restrictions with a width and a bandwidth limit have disabled a StreamInfo
\* of the second period and kept one of the first
C12_Witness ==
  /\ call.op = "setRestrictions"
  /\ call.result = "ok"
  /\ cachedRestrictions[1].maxWidth = 1
  /\ cachedRestrictions[1].minBandwidth = 2
  /\ ~enabled[4]
  /\ enabled[8]
(***************************************************************************)
(* selectConfigurations() explored with configuration lists of several     *)
(* orders, containers and languages, up to the start of the Streams.       *)
(***************************************************************************)
InitConfig ==
  /\ Constructed(ConfigManifest, FALSE, << >>)
  /\ durationSource = << >>

NextConfig ==
  \/ LoadAnyLanguage
  \/ SelectAnyConfigurations
  \/ Attach
  \/ onMediaSourceOpen_
  \/ StartStreamsContinue

SpecConfig == InitConfig /\ [][NextConfig]_vars

\* this step is a selectConfigurations() that rebuilt streamSetsByType
ConfigurationsSelected ==
  call'.op = "selectConfigurations" /\ call'.result = "ok"

\* the configurations of |cfgList| of the container of the first one
CompatibleWithFirst(cfgList) ==
  { cfgList[k] : k \in { n \in DOMAIN cfgList :
      StreamSetInfos[cfgList[n]].mime = StreamSetInfos[cfgList[1]].mime } }

\* C16: selectConfigurations() on a loaded coordinator leaves for video the
\* one StreamSet of the first video configuration, for audio exactly the
\* configured StreamSets of the basic MIME type of the first audio
\* configuration, for text every configured StreamSet; before load it
\* changes neither streamSetsByType nor subsNeeded_.
C16_ConfigurationsChosen ==
  [][ /\ ConfigurationsSelected =>
           LET configs == call'.configs
               sets == streamSetsByType'
           IN  /\ configs["video"] # << >> =>
                    sets["video"] = << configs["video"][1] >>
               /\ configs["video"] = << >> => sets["video"] = << >>
               /\ Range(sets["audio"]) = CompatibleWithFirst(configs["audio"])
               /\ Len(sets["audio"]) =
                    Cardinality(CompatibleWithFirst(configs["audio"]))
               /\ Range(sets["text"]) = Range(configs["text"])
               /\ Len(sets["text"]) = Len(configs["text"])
      /\ (call'.op = "selectConfigurations" /\ ~loaded) =>
           /\ streamSetsByType' = streamSetsByType
           /\ subsNeeded' = subsNeeded ]_vars

\* two video configurations and audio configurations of two containers were
\* given: one video set and the two audio sets of the first container remain
C16_Witness ==
  /\ call.op = "selectConfigurations"
  /\ call.result = "ok"
  /\ call.configs["video"] = <<4, 0>>
  /\ streamSetsByType["video"] = <<4>>
  /\ call.configs["audio"] = <<1, 7, 2>>
  /\ Len(streamSetsByType["audio"]) = 2
  /\ Len(streamSetsByType["text"]) = 2

\* the position in |input| of the set the language sort brings to the front
SortFront(input) ==
  LET MatchesAt(f) ==
        { i \in DOMAIN input :
            LanguageMatch(f, lang, StreamSetInfos[input[i]].lang) }
      levels == { f \in MatchTypeMin..MatchTypeMax : MatchesAt(f) # {} }
      mains == { i \in DOMAIN input : StreamSetInfos[input[i]].main }
      First(S) == CHOOSE i \in S : \A j \in S : i <= j
  IN  IF levels # {} THEN First(MatchesAt(First(levels)))
      ELSE IF mains # {} THEN First(mains)
      ELSE 1

\* |output| is |input| with the set at SortFront(input) moved to the front
SortContract(input, output) ==
  /\ Len(output) = Len(input)
  /\ \A k \in DOMAIN input :
       output[k] = IF k = 1 THEN input[SortFront(input)]
                   ELSE IF k - 1 < SortFront(input) THEN input[k - 1]
                   ELSE input[k]

\* the audio configurations of the container of the first, in their order
AudioSortInput(cfgList) ==
  SelectSeq(cfgList, LAMBDA c : c \in CompatibleWithFirst(cfgList))

\* C17: the audio and the text sets selectConfigurations() leaves are the
\* chosen sets in their order, except that the first set matching the
\* preferred language at the lowest successful fuzz level, else the first
\* main set, is at the front; the other sets keep their relative order.
C17_LanguageSortContract ==
  [][ ConfigurationsSelected =>
        /\ SortContract(AudioSortInput(call'.configs["audio"]),
                        streamSetsByType'["audio"])
        /\ SortContract(call'.configs["text"], streamSetsByType'["text"]) ]_vars

\* with "fr-CA" preferred the third audio set ("fr") went before the second
\* ("fr-FR") to the front, and the two others kept their order
C17_Witness ==
  /\ call.op = "selectConfigurations"
  /\ call.result = "ok"
  /\ lang = "fr-CA"
  /\ call.configs["audio"] = <<1, 8, 2>>
  /\ streamSetsByType["audio"] = <<2, 1, 8>>

\* the language of the front set of |sets| matches the preferred language
\* (a set without a language counts as matching)
FrontMatches(sets) ==
  \/ StreamSetInfos[sets[1]].lang = ""
  \/ LanguageMatch(MatchTypeMax, lang, StreamSetInfos[sets[1]].lang)

\* C18: selectConfigurations() leaves subsNeeded_ false when the front audio
\* set's language matches the preferred language (or is absent) and when
\* text sets exist whose front set's language does not match; startStreams_
\* leaves the text Stream enabled exactly when subsNeeded_ is true.
C18_SubsNeededRules ==
  [][ /\ ConfigurationsSelected =>
           /\ (streamSetsByType'["audio"] # << >> /\
               FrontMatches(streamSetsByType'["audio"])) => ~subsNeeded'
           /\ (streamSetsByType'["text"] # << >> /\
               ~FrontMatches(streamSetsByType'["text"])) => ~subsNeeded'
      /\ (call'.op = "startStreams" /\ call'.result = "ok" /\
          streamsByType'["text"] # << >>) =>
           (streamsByType'["text"][1].enabled <=> subsNeeded) ]_vars

\* the Streams were started with a foreign audio language and a text set in
\* the preferred language: the text Stream is enabled
C18_Witness ==
  /\ call.op = "startStreams"
  /\ call.result = "ok"
  /\ streamsByType["text"] # << >>
  /\ streamsByType["text"][1].enabled
  /\ streamsByType["audio"] # << >>
  /\ ~FrontMatches(streamSetsByType["audio"])
\* the StreamInfos the manifest update of this step removed
RemovedByUpdate ==
  { i \in InfoIds : \E s \in SetIds :
      i \in Range(setStreamInfos[s]) /\ i \notin Range(setStreamInfos'[s]) }

\* the Stream of the type of |i| was playing |i| when the update arrived
PlayingBeforeUpdate(i) ==
  LET t == StreamInfos[i].contentType
  IN  streamsByType[t] # << >> /\ streamsByType[t][1].streamInfo = << i >>

\* the enabled StreamInfos the update left in the chosen sets of |type|
AlternatesAfterUpdate(type) ==
  { j \in Range(InfosOfSetsIn(setStreamInfos', streamSetsByType[type])) :
      enabled[j] }

\* C21: a manifest update that removes the StreamInfo the Stream of its type
\* is playing, while the chosen sets of that type keep an enabled
\* StreamInfo, calls switch(immediate = true) once on that Stream, with an
\* enabled StreamInfo of the same type other than the removed one; an
\* update that removes a StreamInfo which is not playing switches no Stream.
C21_RemovedPlayingStreamSwitched ==
  [][ (call'.op = "updateManifest" /\ call'.result = "ok") =>
        /\ \A i \in RemovedByUpdate :
             LET t == StreamInfos[i].contentType
                 sw == SelectSeq(call'.switches, LAMBDA w : w.type = t)
             IN  IF PlayingBeforeUpdate(i) /\ AlternatesAfterUpdate(t) # {}
                 THEN /\ Len(sw) = 1
                      /\ sw[1].immediate
                      /\ sw[1].info # i
                      /\ sw[1].info \in AlternatesAfterUpdate(t)
                      /\ StreamInfos[sw[1].info].contentType = t
                      /\ enabled'[sw[1].info]
                      /\ streamsByType'[t][1].streamInfo = << sw[1].info >>
                 ELSE ~PlayingBeforeUpdate(i) => sw = << >>
        /\ (\A i \in RemovedByUpdate : ~PlayingBeforeUpdate(i)) =>
             /\ call'.switches = << >>
             /\ \A t \in Types :
                  streamsByType[t] # << >> =>
                    streamsByType'[t][1].streamInfo = streamsByType[t][1].streamInfo
    ]_vars

\* an update removed the playing video StreamInfo and the video Stream was
\* switched to the one that remains
C21_Witness ==
  /\ call.op = "updateManifest"
  /\ call.result = "ok"
  /\ Len(call.switches) = 1
  /\ call.switches[1].immediate
  /\ infoDestroyed[0] + infoDestroyed[1] > 0
(***************************************************************************)
(* The start sequence and the playback that follows it, on a manifest with *)
(* one video and one audio set: started, seeking and ended events in any   *)
(* order, the post-start corrections, manifest updates and destroy().      *)
(***************************************************************************)
InitPlay ==
  /\ \E live \in BOOLEAN, period \in {<< >>, <<5>>} :
       /\ (~live => period = << >>)
       /\ Constructed(PlayManifest, live, period)
  /\ durationSource = << >>

NextPlay ==
  \/ Load
  \/ SelectConfigurations
  \/ Attach
  \/ onMediaSourceOpen_
  \/ StartStreamsContinue
  \/ StreamStarted
  \/ CorrectIndexes
  \/ BufferFilled
  \/ PrecreateIndexes
  \/ Seeking
  \/ StreamEnded
  \/ MediaSourceClosed
  \/ onUpdateManifest_
  \/ UpdateSucceeded
  \/ UpdateFailed
  \/ Destroy

SpecPlay == InitPlay /\ [][NextPlay]_vars
\* C22: once both correction passes that follow the last started event are
\* done, every SegmentIndex the coordinator knows (of the playing
\* StreamInfos and of every other StreamInfo of streamSetsByType) has been
\* shifted by maxTimestampCorrection_ in total, none by twice that amount.
C22_EveryIndexShiftedOnce ==
  (precreate = "done" /\ ~destroyed) =>
    \A i \in InfoIds :
      segmentIndex[i] # << >> => shifted[i] = maxTimestampCorrection[1]
\* a Stream exists that has not emitted 'started'
SomeStreamNotStarted(streams) ==
  \E t \in Types : streams[t] # << >> /\ ~streams[t][1].started

\* C23: while a Stream exists that has not emitted 'started', the playback
\* rate is 0 and the playhead has not been adjusted by the timestamp
\* correction; the step that adjusts the playhead or raises the playback
\* rate is taken with Streams that have all started.
C23_FrozenUntilAllStarted ==
  [][ /\ SomeStreamNotStarted(streamsByType') =>
           (video'.playbackRate = 0 /\ video'.adjustments = 0)
      /\ (video'.adjustments # video.adjustments \/
          video'.playbackRate > video.playbackRate) =>
           /\ ~NoStreams(streamsByType)
           /\ ~SomeStreamNotStarted(streamsByType) ]_vars

\* the audio and the video Stream have started, the playhead was adjusted
\* once and the playback rate is restored
C23_Witness ==
  /\ call.op = "bufferFilled"
  /\ call.result = "ok"
  /\ streamsByType["audio"] # << >>
  /\ streamsByType["video"] # << >>
  /\ video.adjustments = 1
  /\ video.playbackRate = 1

\* C24: the first 'seeking' event after onAllStreamsStarted() resyncs no
\* Stream; every later one calls resync() once on every existing Stream;
\* no Stream is resynced before onAllStreamsStarted() has run.
C24_FirstSeekIgnored ==
  [][ /\ call'.op = "seeking" =>
           IF video.adjustments > 0 /\ video.seekListener = "armed"
           THEN \A t \in Types :
                  resyncs'[t] = IF streamsByType[t] # << >>
                                THEN resyncs[t] + 1 ELSE resyncs[t]
           ELSE resyncs' = resyncs
      /\ resyncs' # resyncs =>
           (call'.op = "seeking" /\ video.adjustments > 0) ]_vars

\* two 'seeking' events after the start: the audio and the video Stream
\* were resynced once
C24_Witness ==
  /\ call.op = "seeking"
  /\ call.result = "resync"
  /\ video.seeks = 2
  /\ streamsByType["audio"] # << >>
  /\ resyncs["audio"] = 1
  /\ resyncs["video"] = 1

\* C25: endOfStream() is called only by the 'ended' event after which every
\* Stream of a static manifest has ended, received while the MediaSource is
\* open, and that event does call it once; it is never called for a live
\* manifest.
C25_EndOfStreamWhenAllEnded ==
  [][ ~destroyed' =>
        LET signalled == mediaSource'.endOfStream # mediaSource.endOfStream
            due == /\ call'.op = "onStreamEnded"
                   /\ ~manifestInfo[1].live
                   /\ AllEnded(streamsByType')
                   /\ ~NoStreams(streamsByType')
                   /\ mediaSource.readyState = "open"
        IN  /\ signalled <=> due
            /\ signalled =>
                 mediaSource'.endOfStream = mediaSource.endOfStream + 1 ]_vars

\* the second of two Streams of a static manifest ended with the
\* MediaSource open: endOfStream() was called
C25_Witness ==
  /\ call.op = "onStreamEnded"
  /\ call.result = "endOfStream"
  /\ mediaSource.endOfStream = 1
  /\ streamsByType["audio"] # << >>
  /\ streamsByType["video"] # << >>

\* C26: a handler that ends with an error of type 'aborted' (the creation of
\* the initial SegmentIndexes, the corrections after the start, a manifest
\* update) dispatches no error event and does not reject attach().
C26_AbortedNeverSurfaced ==
  [][ call'.result = "aborted" =>
        /\ errorEvents' = errorEvents
        /\ attachPromise' = "rejected" => attachPromise = "rejected" ]_vars

\* a manifest update was aborted after a start that had been aborted or had
\* failed: no error event, attach() not rejected
C26_Witness ==
  /\ call.op = "updateManifest"
  /\ call.result = "aborted"
  /\ ~errorEvents
  /\ attachPromise = "resolved"
(***************************************************************************)
(* computeStreamLimits() applied to lists of SegmentIndexes, on static and *)
(* live manifests with several minBufferTimes and period durations.        *)
(***************************************************************************)
InitLimits ==
  /\ \E live \in BOOLEAN, minBufferTime \in {0, 1, 3},
        periodDuration \in {0, 3, 8} :
       ConstructedWith(PlayManifest, live, << >>, minBufferTime, periodDuration)
  /\ durationSource = << >>

NextLimits ==
  \/ Load
  \/ ComputeStreamLimits

SpecLimits == InitLimits /\ [][NextLimits]_vars

\* C29: computeStreamLimits() returns null when one of the SegmentIndexes it
\* is given is empty, wherever that index is in the list and whatever the
\* other indexes hold.
C29_EmptyIndexGivesNull ==
  (call.op = "computeStreamLimits" /\
   \E k \in DOMAIN call.segmentIndexes : call.segmentIndexes[k] = << >>) =>
    call.limits = << >>

\* the greatest of the first start times of |indexes|
LatestStart(indexes) ==
  CHOOSE x \in { indexes[k][1].startTime : k \in DOMAIN indexes } :
    \A k \in DOMAIN indexes : indexes[k][1].startTime <= x

\* the end times the indexes allow: for a live manifest the start of the
\* last reference less minBufferTime, not below 0; for a static one the
\* end of the last reference where it is known
EndCandidates(indexes, live, minBufferTime) ==
  IF live
  THEN { Max2(0, indexes[k][Len(indexes[k])].startTime - minBufferTime) :
           k \in DOMAIN indexes }
  ELSE { indexes[k][Len(indexes[k])].endTime[1] :
           k \in { n \in DOMAIN indexes :
                     indexes[n][Len(indexes[n])].endTime # << >> } }

\* the end of the play window: <<>> when none can be computed
WindowEnd(indexes, live, minBufferTime, periodDuration) ==
  LET ends == EndCandidates(indexes, live, minBufferTime)
  IN  IF ends # {} THEN << CHOOSE e \in ends : \A f \in ends : e <= f >>
      ELSE IF periodDuration > 0 THEN << periodDuration >>
      ELSE << >>

InitDuration ==
  /\ ConstructedWith(PlayManifest, FALSE, << >>, 1, 8)
  /\ \E dynamic \in BOOLEAN, duration \in {1, 2, 11},
        segmentDuration \in {1, 3, 11},
        timescale \in {1, 15, 49} :
       durationSource =
         << NewDurationSource(dynamic, duration, segmentDuration, timescale) >>

NextDuration ==
  \/ CreateIndex
  \/ DestroySource

SpecDuration == InitDuration /\ [][NextDuration]_vars

\* C27: after a create() that resolved, the next create() on the source
\* (no destroy() in between) resolves with the same SegmentIndex object and
\* constructs no SegmentIndex.
C27_CreateCached ==
  [][ (/\ call.op = "create"
       /\ call.result = "resolved"
       /\ call'.op = "create") =>
        /\ call'.result = "resolved"
        /\ call'.index = call.index
        /\ durationSource'[1].indexes = durationSource[1].indexes ]_vars

\* three create() calls have resolved and one SegmentIndex exists
C27_Witness ==
  /\ call.op = "create"
  /\ call.result = "resolved"
  /\ durationSource[1].creates = 3
  /\ durationSource[1].indexes = 1
  /\ call.index = << 1 >>

\* C28: for a static manifest create() asks generateSegmentReferences for
\* ceil(period.duration * timescale / segmentDuration) references, numbered
\* from 1.
C28_ReferenceCount ==
  (call.op = "create" /\ call.requested # << >>) =>
    LET d == durationSource[1].period_[1].duration
        t == durationSource[1].representation_[1]
    IN  call.requested[1] =
          [first |-> 1,
           count |-> (d * t.timescale + t.segmentDuration - 1)
                       \div t.segmentDuration]
(***************************************************************************)
(* Properties of the start sequence.                                       *)
(***************************************************************************)
\* this step called createAndStartStreams_()
StartRequested ==
  /\ startPhase' = "creating"
  /\ call'.op \in {"onMediaSourceOpen", "updateManifest"}

\* C31: createAndStartStreams_() selects, for each type of streamSetsByType,
\* one StreamInfo of the first StreamSetInfo of the type: for video the one
\* whose uniqueId the AbrManager returned, for audio the one at index
\* floor(n / 2) of the n of the set, for text the first; nothing for a type
\* that is absent.
C31_InitialStreamInfos ==
  [][ StartRequested =>
        \A t \in Types :
          IF streamSetsByType'[t] = << >> THEN selected'[t] = << >>
          ELSE LET infos == setStreamInfos'[streamSetsByType'[t][1]]
               IN  IF t = "video"
                   THEN \E estimate \in Estimates :
                          selected'[t] =
                            getInitialVideoTrackId(estimate, setStreamInfos',
                                                   enabled')
                   ELSE IF t = "audio"
                   THEN selected'[t] = << infos[(Len(infos) \div 2) + 1] >>
                   ELSE selected'[t] = << infos[1] >> ]_vars

\* this step is a createAndStartStreams_() that failed with an error other
\* than 'aborted'
StartFailed ==
  /\ call'.op = "startStreams"
  /\ call'.result \in {"suppressed", "rejected"}

\* C32: when createAndStartStreams_() fails with an error that is not
\* 'aborted' (an empty SegmentIndex, no stream limits, a Stream that cannot
\* be created), the coordinator holds no Stream afterwards, every Stream the
\* attempt created has been destroyed, and the playback rate, the playhead
\* and the duration of the sink are as they were.
C32_FailedStartLeavesNothing ==
  [][ StartFailed =>
        /\ NoStreams(streamsByType')
        /\ call'.released = call'.created
        /\ video'.playbackRate = video.playbackRate
        /\ video'.currentTime = video.currentTime
        /\ mediaSource'.duration = mediaSource.duration ]_vars

\* a start failed on the video Stream after the audio Stream had been
\* created: that Stream was destroyed and no Stream is held
C32_Witness ==
  /\ call.op = "startStreams"
  /\ call.result \in {"suppressed", "rejected"}
  /\ call.created = {"audio"}
  /\ call.released = {"audio"}
  /\ NoStreams(streamsByType)

(***************************************************************************)
(* Properties of the update timer and of manifest updates.                 *)
(***************************************************************************)
\* C33: whenever the update timer is armed its delay, in seconds, is
\* max(updatePeriod - elapsed, 3), so at least 3, where elapsed is the time
\* the update that just completed took (0 when the start sequence arms the
\* timer); with no updatePeriod in the manifest no timer is armed.
C33_TimerDelay ==
  [][ /\ (updateTimer' # << >> /\ updateTimer' # updateTimer) =>
           /\ manifestInfo[1].updatePeriod # << >>
           /\ LET elapsed == IF call'.op = "updateManifest" THEN call'.elapsed
                             ELSE 0
                  delay == manifestInfo[1].updatePeriod[1] - elapsed
              IN  updateTimer'[1] = IF delay >= 3 THEN delay ELSE 3
           /\ updateTimer'[1] >= 3
      /\ (manifestInfo' # << >> /\ manifestInfo'[1].updatePeriod = << >>) =>
           updateTimer' = << >> ]_vars

\* an update that took 3 of the 5 seconds of the update period re-armed
\* the timer with the minimum of 3 seconds
C33_Witness ==
  /\ call.op = "updateManifest"
  /\ call.result = "ok"
  /\ call.elapsed = 3
  /\ manifestInfo[1].updatePeriod = << 5 >>
  /\ updateTimer = << 3 >>

\* this step is the handler of a manifest update that succeeded
UpdateCompleted == call'.op = "updateManifest" /\ call'.result = "ok"

\* C34: a manifest update that completes with no Stream held calls
\* createAndStartStreams_() again and does not arm the update timer; one
\* that completes with Streams held does not start them again; Streams are
\* created only when none is held.
C34_UpdateRetriesStart ==
  [][ /\ UpdateCompleted =>
           IF NoStreams(streamsByType)
           THEN /\ startPhase' = "creating"
                /\ startCaller' = "update"
                /\ updateTimer' = << >>
           ELSE /\ startPhase' = startPhase
                /\ startCaller' = startCaller
                /\ selected' = selected
                /\ ~NoStreams(streamsByType')
      /\ (\E t \in Types : streamsByType'[t] # << >> /\ streamsByType[t] = << >>) =>
           /\ call'.op = "startStreams"
           /\ NoStreams(streamsByType) ]_vars

\* an update completed after a failed start: the start is retried and no
\* timer is armed
C34_Witness ==
  /\ call.op = "updateManifest"
  /\ call.result = "ok"
  /\ NoStreams(streamsByType)
  /\ startPhase = "creating"
  /\ startCaller = "update"
  /\ updateTimer = << >>

\* the update of this step removed the StreamInfo |i| its Stream was
\* playing and left no enabled StreamInfo in the chosen sets of its type
RemovedWithoutAlternate(i) ==
  /\ UpdateCompleted
  /\ i \in RemovedByUpdate
  /\ PlayingBeforeUpdate(i)
  /\ AlternatesAfterUpdate(StreamInfos[i].contentType) = {}

C36_RemovedDestroyedOnce ==
  [][ UpdateCompleted =>
        \A i \in RemovedByUpdate :
          LET t == StreamInfos[i].contentType
              sw == SelectSeq(call'.switches, LAMBDA w : w.type = t)
          IN  /\ ~RemovedWithoutAlternate(i) =>
                   infoDestroyed'[i] = infoDestroyed[i] + 1
              /\ (PlayingBeforeUpdate(i) /\ infoDestroyed'[i] > infoDestroyed[i]) =>
                   (Len(sw) = 1 /\ sw[1].info # i) ]_vars

\* the completions of asynchronous work: the SegmentIndexes of the start
\* sequence, the fetched manifest update, the corrected SegmentIndexes and
\* the poll of the buffer
AsyncCompletions == {"startStreams", "updateManifest", "correctIndexes", "bufferFilled"}

\* C37: asynchronous work that completes after destroy() creates no Stream,
\* arms no update timer, changes nothing of the video element or the
\* MediaSource and dispatches no error event.
C37_CompletionAfterDestroyIsInert ==
  [][ (destroyed /\ call'.op \in AsyncCompletions) =>
        /\ streamsByType' = streamsByType
        /\ updateTimer' = updateTimer
        /\ video' = video
        /\ mediaSource' = mediaSource
        /\ errorEvents' = errorEvents ]_vars
(***************************************************************************)
(* Live playback of one video and one audio set under restrictions, with   *)
(* manifest updates that remove StreamInfos and add new ones.              *)
(***************************************************************************)
NextMerge ==
  \/ Load
  \/ SelectConfigurations
  \/ SetRestrictions
  \/ Attach
  \/ onMediaSourceOpen_
  \/ StartStreamsContinue
  \/ StreamStarted
  \/ CorrectIndexes
  \/ BufferFilled
  \/ onUpdateManifest_
  \/ UpdateMerged
  \/ UpdateFailed
  \/ Destroy

SpecMerge == InitPlay /\ [][NextMerge]_vars

\* C38: when restrictions are cached and a manifest update removes the
\* StreamInfo being played, the StreamInfo the Stream is switched to
\* satisfies the cached restrictions (and so is enabled once the handler has
\* re-applied them), also when the update added StreamInfos.
C38_ReplacementWithinRestrictions ==
  [][ (UpdateCompleted /\ cachedRestrictions # << >>) =>
        \A i \in RemovedByUpdate :
          PlayingBeforeUpdate(i) =>
            \A k \in DOMAIN call'.switches :
              /\ ~Restricted(call'.switches[k].info, cachedRestrictions[1])
              /\ enabled'[call'.switches[k].info] ]_vars
(***************************************************************************)
(* The start sequence under fair scheduling: the promise of the created    *)
(* SegmentIndexes is settled and its handler run, and the sink keeps       *)
(* buffering, so that a poll of startIfBuffered() finds the buffer filled. *)
(***************************************************************************)
NextStart ==
  \/ Load
  \/ SelectConfigurations
  \/ Attach
  \/ onMediaSourceOpen_
  \/ StartStreamsContinue
  \/ StreamStarted
  \/ CorrectIndexes
  \/ BufferFilled
  \/ onUpdateManifest_
  \/ UpdateSucceeded
  \/ UpdateFailed
  \/ Destroy

SpecStart ==
  /\ InitPlay
  /\ [][NextStart]_vars
  /\ WF_vars(CorrectIndexes)
  /\ WF_vars(BufferFilled)

\* every Stream has emitted started and onAllStreamsStarted_() has begun
EveryStreamStarted ==
  /\ ~NoStreams(streamsByType)
  /\ AllStarted(streamsByType)
  /\ startPhase = "correcting"

\* onAllStreamsStarted() has run: the playback rate is the one
\* startStreams_() saved
PlaybackStarted ==
  /\ startPhase = "started"
  /\ video.adjustments = 1
  /\ video.originalPlaybackRate # << >>
  /\ video.playbackRate = video.originalPlaybackRate[1]
  /\ video.playbackRate # 0

\* C39: once every Stream has emitted started, and unless the coordinator
\* is destroyed or the SegmentIndexes of the playing StreamInfos cannot be
\* had, the coordinator eventually adds maxTimestampCorrection_ to
\* video.currentTime and restores the playback rate startStreams_() saved;
\* it does so once, in one step, and never again.
C39_PlaybackEventuallyStarts ==
  /\ EveryStreamStarted ~> (PlaybackStarted \/ destroyed \/ startPhase = "stalled")
  /\ [](video.adjustments <= 1)
  /\ [][ video'.currentTime # video.currentTime =>
           \/ call'.op = "startStreams"
           \/ /\ call'.op = "bufferFilled"
              /\ video.adjustments = 0
              /\ video'.adjustments = 1
              /\ video'.currentTime = video.currentTime + maxTimestampCorrection[1]
              /\ video'.playbackRate = video.originalPlaybackRate[1] ]_vars

\* playback started after a correction of 1: the playhead is one past the
\* start of the live window
C39_Witness ==
  /\ PlaybackStarted
  /\ ~destroyed
  /\ maxTimestampCorrection = << 1 >>
  /\ call.op = "bufferFilled"
  /\ video.currentTime >= 1

\* the timestamp corrections the started events received so far reported
ReportedCorrections ==
  { streamsByType[t][1].timestampCorrection[1] :
      t \in { u \in Types : /\ streamsByType[u] # << >>
                            /\ streamsByType[u][1].timestampCorrection # << >> } }

\* this step runs onAllStreamsStarted_()
AllStreamsStartedStep == startPhase' = "correcting" /\ startPhase # "correcting"

\* C40: onAllStreamsStarted_() runs only at a started event that leaves
\* every existing Stream started, with finite minTimestampCorrection_ <=
\* maxTimestampCorrection_ that are the least and the greatest correction
\* the started events reported; the SegmentIndexes of the playing
\* StreamInfos and the playhead are then shifted by maxTimestampCorrection_.
C40_CorrectionsAreExtremes ==
  /\ [][ AllStreamsStartedStep =>
           /\ call'.op = "onStreamStarted"
           /\ ~NoStreams(streamsByType')
           /\ \A t \in Types :
                streamsByType'[t] # << >> => streamsByType'[t][1].started
           /\ minTimestampCorrection' # << >>
           /\ maxTimestampCorrection' # << >>
           /\ minTimestampCorrection'[1] <= maxTimestampCorrection'[1]
           /\ minTimestampCorrection'[1] \in ReportedCorrections'
           /\ maxTimestampCorrection'[1] \in ReportedCorrections'
           /\ \A c \in ReportedCorrections' :
                minTimestampCorrection'[1] <= c /\ c <= maxTimestampCorrection'[1] ]_vars
  /\ [][ (call'.op = "correctIndexes" /\ call'.result = "ok") =>
           /\ maxTimestampCorrection[1] \in ReportedCorrections
           /\ \A c \in ReportedCorrections : c <= maxTimestampCorrection[1]
           /\ \A t \in Types : \A i \in Range(selected[t]) :
                shifted'[i] = shifted[i] + maxTimestampCorrection[1] ]_vars
  /\ [][ (call'.op = "bufferFilled" /\ call'.result = "ok") =>
           /\ \A c \in ReportedCorrections : c <= maxTimestampCorrection[1]
           /\ video'.currentTime = video.currentTime + maxTimestampCorrection[1] ]_vars

\* two Streams reported different corrections and the playhead was moved
C40_Witness ==
  /\ call.op = "bufferFilled"
  /\ call.result = "ok"
  /\ ReportedCorrections = {0, 1}
  /\ minTimestampCorrection = << 0 >>
  /\ maxTimestampCorrection = << 1 >>
  /\ video.adjustments = 1
====
